---- MODULE Spec2Model ----
(***************************************************************************)
(* The selector pen of rnote: the state machine of                         *)
(* crates/rnote-engine/src/pens/selector/penevents.rs, with the stroke     *)
(* store, camera and document it drives.                                   *)
(*                                                                         *)
(* Coordinates are exact rationals <<n, d>> (d > 0, lowest terms); the     *)
(* non-finite f64 values are <<1, 0>> (+inf), <<-1, 0>> (-inf) and         *)
(* <<0, 0>> (NaN).  Points and vectors are pairs <<x, y>> of such numbers, *)
(* an Aabb is a record [mins, maxs] of points.                             *)
(***************************************************************************)
EXTENDS Integers, Sequences, FiniteSets, TLC

\* The number of events one behaviour handles.
MaxEvents == 3
\* The number of pointer events one drag behaviour handles.
MaxDragEvents == 5

(***************************************************************************)
(* f64 arithmetic, exact on the finite values                              *)
(***************************************************************************)
RECURSIVE GCD(_, _)
GCD(a, b) == IF b = 0 THEN a ELSE GCD(b, a % b)

Abs(n) == IF n < 0 THEN -n ELSE n

Norm(n, d) ==
    LET s == IF d < 0 THEN -1 ELSE 1
        g == GCD(Abs(n), Abs(d))
    IN  <<(s * n) \div g, (s * d) \div g>>

R(n) == <<n, 1>>
PosInf == <<1, 0>>
NegInf == <<-1, 0>>
NaN == <<0, 0>>

IsNaN(a) == a = NaN
IsFinite(a) == a[2] # 0
Sign(a) == IF a[1] > 0 THEN 1 ELSE IF a[1] < 0 THEN -1 ELSE 0

RNeg(a) == <<-a[1], a[2]>>

RAdd(a, b) ==
    IF IsNaN(a) \/ IsNaN(b) THEN NaN
    ELSE IF ~IsFinite(a) THEN (IF ~IsFinite(b) /\ b # a THEN NaN ELSE a)
    ELSE IF ~IsFinite(b) THEN b
    ELSE LET g == GCD(a[2], b[2])
         IN  Norm(a[1] * (b[2] \div g) + b[1] * (a[2] \div g), (a[2] \div g) * b[2])

RSub(a, b) == RAdd(a, RNeg(b))

RMul(a, b) ==
    IF IsNaN(a) \/ IsNaN(b) THEN NaN
    ELSE IF ~IsFinite(a) \/ ~IsFinite(b)
         THEN (IF Sign(a) * Sign(b) = 0 THEN NaN ELSE <<Sign(a) * Sign(b), 0>>)
    ELSE LET g1 == GCD(Abs(a[1]), b[2])
             g2 == GCD(Abs(b[1]), a[2])
         IN  Norm((a[1] \div g1) * (b[1] \div g2), (a[2] \div g2) * (b[2] \div g1))

RDiv(a, b) ==
    IF IsNaN(a) \/ IsNaN(b) THEN NaN
    ELSE IF ~IsFinite(b) THEN (IF ~IsFinite(a) THEN NaN ELSE R(0))
    ELSE IF ~IsFinite(a) THEN <<Sign(a) * (IF Sign(b) < 0 THEN -1 ELSE 1), 0>>
    ELSE IF b[1] = 0 THEN <<Sign(a), 0>>
    ELSE RMul(a, IF b[1] < 0 THEN <<-b[2], -b[1]>> ELSE <<b[2], b[1]>>)

RLt(a, b) ==
    IF IsNaN(a) \/ IsNaN(b) THEN FALSE
    ELSE IF ~IsFinite(a) /\ ~IsFinite(b) THEN a[1] < b[1]
    ELSE IF ~IsFinite(a) \/ ~IsFinite(b) THEN a[1] * b[2] < b[1] * a[2]
    ELSE LET g == GCD(a[2], b[2])
         IN  a[1] * (b[2] \div g) < b[1] * (a[2] \div g)

RLe(a, b) == ~IsNaN(a) /\ ~IsNaN(b) /\ ~RLt(b, a)

\* f64::max and f64::min: the operand that is not NaN wins.
RMax(a, b) == IF IsNaN(a) THEN b ELSE IF IsNaN(b) THEN a ELSE IF RLt(a, b) THEN b ELSE a
RMin(a, b) == IF IsNaN(a) THEN b ELSE IF IsNaN(b) THEN a ELSE IF RLt(b, a) THEN b ELSE a

RAbs(a) == <<Abs(a[1]), a[2]>>

\* floor of a finite value
RFloor(a) == a[1] \div a[2]

(***************************************************************************)
(* na::Vector2 / na::Point2 and p2d Aabb                                   *)
(***************************************************************************)
Vec(x, y) == <<R(x), R(y)>>
VAdd(u, v) == <<RAdd(u[1], v[1]), RAdd(u[2], v[2])>>
VSub(u, v) == <<RSub(u[1], v[1]), RSub(u[2], v[2])>>
VNeg(u) == <<RNeg(u[1]), RNeg(u[2])>>
VMaxs(u, v) == <<RMax(u[1], v[1]), RMax(u[2], v[2])>>
VScale(u, k) == <<RMul(u[1], k), RMul(u[2], k)>>
VComponentMul(u, v) == <<RMul(u[1], v[1]), RMul(u[2], v[2])>>
VComponentDiv(u, v) == <<RDiv(u[1], v[1]), RDiv(u[2], v[2])>>
VMean(u) == RDiv(RAdd(u[1], u[2]), R(2))
\* the squared magnitude: magnitude() > t is compared as magnitude^2 > t^2
VMagnitudeSquared(u) == RAdd(RMul(u[1], u[1]), RMul(u[2], u[2]))

Aabb(mins, maxs) == [mins |-> mins, maxs |-> maxs]
Box(x0, y0, x1, y1) == Aabb(Vec(x0, y0), Vec(x1, y1))
Extents(b) == VSub(b.maxs, b.mins)
Center(b) == VScale(VAdd(b.mins, b.maxs), <<1, 2>>)
AabbTranslate(b, v) == Aabb(VAdd(b.mins, v), VAdd(b.maxs, v))
\* Aabb::new_positive: the box spanned by two points in any order
AabbNewPositive(p, q) ==
    Aabb(<<RMin(p[1], q[1]), RMin(p[2], q[2])>>, <<RMax(p[1], q[1]), RMax(p[2], q[2])>>)
AabbFromHalfExtents(c, h) == Aabb(VSub(c, h), VAdd(c, h))
\* AabbExt::extend_by
AabbExtendBy(b, v) == Aabb(VSub(b.mins, v), VAdd(b.maxs, v))
\* AabbExt::scale_non_uniform
AabbScaleNonUniform(b, s) == Aabb(VComponentMul(b.mins, s), VComponentMul(b.maxs, s))
AabbMerged(a, b) ==
    Aabb(<<RMin(a.mins[1], b.mins[1]), RMin(a.mins[2], b.mins[2])>>,
         <<RMax(a.maxs[1], b.maxs[1]), RMax(a.maxs[2], b.maxs[2])>>)
\* Aabb::intersects
AabbIntersects(a, b) ==
    /\ RLe(a.mins[1], b.maxs[1]) /\ RLe(b.mins[1], a.maxs[1])
    /\ RLe(a.mins[2], b.maxs[2]) /\ RLe(b.mins[2], a.maxs[2])
\* Aabb::contains: b lies inside a
AabbContains(a, b) ==
    /\ RLe(a.mins[1], b.mins[1]) /\ RLe(a.mins[2], b.mins[2])
    /\ RLe(b.maxs[1], a.maxs[1]) /\ RLe(b.maxs[2], a.maxs[2])

\* PointQuery::contains_local_point on an Aabb: the boundary is inside
ContainsLocalPoint(b, p) ==
    /\ RLe(b.mins[1], p[1]) /\ RLe(p[1], b.maxs[1])
    /\ RLe(b.mins[2], p[2]) /\ RLe(p[2], b.maxs[2])

\* PointQuery::contains_local_point on a BoundingSphere [center, radius]
SphereContainsLocalPoint(s, p) ==
    RLe(VMagnitudeSquared(VSub(p, s.center)), RMul(s.radius, s.radius))

(***************************************************************************)
(* Option<T>: <<>> is None, <<v>> is Some(v)                               *)
(***************************************************************************)
None == <<>>
Some(v) == <<v>>
IsSome(o) == o # <<>>
Unwrap(o) == o[1]

(***************************************************************************)
(* Vec<StrokeKey> helpers                                                  *)
(***************************************************************************)
Range(s) == {s[i] : i \in DOMAIN s}
Last(s) == s[Len(s)]

RECURSIVE SortedSeq(_)
\* the keys of a set in chronological (ascending) order
SortedSeq(S) ==
    IF S = {} THEN <<>>
    ELSE LET m == CHOOSE x \in S : \A y \in S : x <= y
         IN  <<m>> \o SortedSeq(S \ {m})

(***************************************************************************)
(* Widget flags and event results                                          *)
(***************************************************************************)
DefaultFlags ==
    [store_modified |-> FALSE, resize |-> FALSE, deselect_color_setters |-> FALSE]

FlagsOr(f, g) ==
    [store_modified |-> f.store_modified \/ g.store_modified,
     resize |-> f.resize \/ g.resize,
     deselect_color_setters |-> f.deselect_color_setters \/ g.deselect_color_setters]

EventResult(handled, propagate, progress) ==
    [handled |-> handled, propagate |-> propagate, progress |-> progress]

\* a command issued to the store, the camera or the document, with the keys
\* it is about (<<>> for a command that takes no keys)
Cmd(op, keys) == [op |-> op, keys |-> keys]

(***************************************************************************)
(* The pens config of the selector                                         *)
(***************************************************************************)
SelectorStyles == {"Polygon", "Rectangle", "Single", "IntersectingPath"}

\* the keyboard keys; "other" stands for every key without a shortcut
KeyboardKeys == {"a", "d", "Delete", "BackSpace", "Escape", "other"}

(***************************************************************************)
(* Camera and document                                                     *)
(***************************************************************************)
total_zoom == 1

\* Camera::viewport: the modelled part of the document is in view
Viewport == Box(-100, -100, 200, 200)

\* the document's snapping grid
SnapGrid == 5

RoundToMultiple(a, g) ==
    IF ~IsFinite(a) THEN a
    ELSE R(RFloor(RAdd(RDiv(a, R(g)), <<1, 2>>)) * g)

\* Document::snap_position
snap_position(snap_positions, p) ==
    IF snap_positions
    THEN <<RoundToMultiple(p[1], SnapGrid), RoundToMultiple(p[2], SnapGrid)>>
    ELSE p

(***************************************************************************)
(* The stroke store                                                        *)
(***************************************************************************)
Keys == {1, 2, 3}

\* the hitbox of each stroke of the document, in chronological order
\* (a later key is drawn on top)
InitialBounds(k) ==
    CASE k = 1 -> Box(0, 0, 20, 20)
      [] k = 2 -> Box(0, 0, 10, 10)
      [] OTHER -> Box(40, 40, 44, 44)

Stroke(bounds, selected, trashed) ==
    [bounds |-> bounds, selected |-> selected, trashed |-> trashed]

RECURSIVE MergedBounds(_, _)
MergedBounds(strokes, keys) ==
    IF Len(keys) = 1 THEN strokes[keys[1]].bounds
    ELSE AabbMerged(strokes[keys[1]].bounds, MergedBounds(strokes, Tail(keys)))

\* StrokeStore::bounds_for_strokes: no bounds for an empty list of keys, and
\* none from a store that lacks the components of the strokes
bounds_for_strokes(store, keys) ==
    IF keys = <<>> \/ ~store.components THEN None
    ELSE Some(MergedBounds(store.strokes, keys))

\* StrokeStore::stroke_keys_as_rendered
stroke_keys_as_rendered(store) ==
    SortedSeq({k \in Keys : ~store.strokes[k].trashed})

\* StrokeStore::selection_keys_as_rendered
selection_keys_as_rendered(store) ==
    SortedSeq({k \in Keys : store.strokes[k].selected /\ ~store.strokes[k].trashed})

\* StrokeStore::selected
selected(store, key) ==
    IF key \in Keys THEN Some(store.strokes[key].selected) ELSE None

\* the size cached when strokes get selected
InitialSizeAfterSelecting(strokes) ==
    LET sel == SortedSeq({k \in Keys : strokes[k].selected})
    IN  IF sel = <<>> THEN None ELSE Some(Extents(MergedBounds(strokes, sel)))

\* StrokeStore::set_selected_keys
set_selected_keys(store, keys, flag) ==
    LET strokes == [k \in Keys |->
                      IF k \in Range(keys)
                      THEN [store.strokes[k] EXCEPT !.selected = flag]
                      ELSE store.strokes[k]]
    IN  [store EXCEPT !.strokes = strokes,
                      !.initial_size_selection =
                          IF flag THEN InitialSizeAfterSelecting(strokes) ELSE @]

\* StrokeStore::set_selected
set_selected(store, key, flag) == set_selected_keys(store, <<key>>, flag)

\* StrokeStore::set_trashed_keys
set_trashed_keys(store, keys, flag) ==
    [store EXCEPT !.strokes =
        [k \in Keys |->
            IF k \in Range(keys)
            THEN [store.strokes[k] EXCEPT !.trashed = flag]
            ELSE store.strokes[k]]]

\* the keys of the rendered strokes in the viewport, in chronological order
KeysInViewport(store, viewport) ==
    {k \in Keys : ~store.strokes[k].trashed /\ AabbIntersects(viewport, store.strokes[k].bounds)}

\* StrokeStore::stroke_hitboxes_contain_coord: topmost last
stroke_hitboxes_contain_coord(store, viewport, pos) ==
    SortedSeq({k \in KeysInViewport(store, viewport) :
                  ContainsLocalPoint(store.strokes[k].bounds, pos)})

\* StrokeStore::strokes_hitboxes_contained_in_aabb
strokes_hitboxes_contained_in_aabb(store, aabb, viewport) ==
    SortedSeq({k \in KeysInViewport(store, viewport) :
                  AabbContains(aabb, store.strokes[k].bounds)})

\* StrokeStore::record: one more entry of the history
record(store) == [store EXCEPT !.history = @ + 1]

\* Vec::pop on the result of a query
Pop(keys) == IF keys = <<>> THEN None ELSE Some(Last(keys))

(***************************************************************************)
(* Queries of the store over a selection path                              *)
(***************************************************************************)
\* twice the signed area of the triangle a, b, c
Cross(a, b, c) ==
    RSub(RMul(RSub(b[1], a[1]), RSub(c[2], a[2])),
         RMul(RSub(b[2], a[2]), RSub(c[1], a[1])))

\* the closed segments a-b and c-d meet
SegmentsIntersect(a, b, c, d) ==
    LET d1 == Sign(Cross(c, d, a))
        d2 == Sign(Cross(c, d, b))
        d3 == Sign(Cross(a, b, c))
        d4 == Sign(Cross(a, b, d))
        OnSeg(p, q, r) == ContainsLocalPoint(AabbNewPositive(p, q), r)
    IN  \/ (d1 * d2 < 0 /\ d3 * d4 < 0)
        \/ (d1 = 0 /\ OnSeg(c, d, a))
        \/ (d2 = 0 /\ OnSeg(c, d, b))
        \/ (d3 = 0 /\ OnSeg(a, b, c))
        \/ (d4 = 0 /\ OnSeg(a, b, d))

Corners(b) == << b.mins, <<b.maxs[1], b.mins[2]>>, b.maxs, <<b.mins[1], b.maxs[2]>> >>

\* the closed segment a-b meets the box
SegmentIntersectsBox(a, b, box) ==
    \/ ContainsLocalPoint(box, a)
    \/ ContainsLocalPoint(box, b)
    \/ \E i \in 1..4 :
          SegmentsIntersect(a, b, Corners(box)[i], Corners(box)[(i % 4) + 1])

\* the point lies on the closed polygon traced by the path
PointOnPolygonEdge(path, p) ==
    \E i \in 1..Len(path) :
        LET a == path[i]
            b == path[(i % Len(path)) + 1]
        IN  Sign(Cross(a, b, p)) = 0 /\ ContainsLocalPoint(AabbNewPositive(a, b), p)

\* crossing number of the horizontal ray from p with the closed polygon
Crossings(path, p) ==
    Cardinality({i \in 1..Len(path) :
        LET a == path[i]
            b == path[(i % Len(path)) + 1]
        IN  /\ RLt(p[2], a[2]) # RLt(p[2], b[2])
            /\ RLt(p[1], RAdd(a[1], RDiv(RMul(RSub(b[1], a[1]), RSub(p[2], a[2])),
                                         RSub(b[2], a[2]))))})

PointInPolygon(path, p) ==
    PointOnPolygonEdge(path, p) \/ Crossings(path, p) % 2 = 1

\* the hitbox lies inside the closed polygon: its corners do, and no edge
\* of the polygon passes through its interior
BoxInPolygon(path, box) ==
    /\ \A i \in 1..4 : PointInPolygon(path, Corners(box)[i])
    /\ \A i \in 1..Len(path) :
          LET a == path[i]
              b == path[(i % Len(path)) + 1]
          IN  \A j \in 1..4 :
                 LET c == Corners(box)[j]
                     d == Corners(box)[(j % 4) + 1]
                 IN  ~(Sign(Cross(c, d, a)) * Sign(Cross(c, d, b)) < 0
                       /\ Sign(Cross(a, b, c)) * Sign(Cross(a, b, d)) < 0)

\* StrokeStore::strokes_hitboxes_contained_in_path_polygon
strokes_hitboxes_contained_in_path_polygon(store, path, viewport) ==
    SortedSeq({k \in KeysInViewport(store, viewport) :
                  BoxInPolygon(path, store.strokes[k].bounds)})

\* StrokeStore::strokes_hitboxes_intersect_path
strokes_hitboxes_intersect_path(store, path, viewport) ==
    SortedSeq({k \in KeysInViewport(store, viewport) :
                  \E i \in 1..(Len(path) - 1) :
                      SegmentIntersectsBox(path[i], path[i + 1], store.strokes[k].bounds)})

(***************************************************************************)
(* Transformations of the strokes of the store                             *)
(***************************************************************************)
MapStrokes(store, keys, f(_)) ==
    [store EXCEPT !.strokes =
        [k \in Keys |->
            IF k \in Range(keys)
            THEN [store.strokes[k] EXCEPT !.bounds = f(@)]
            ELSE store.strokes[k]]]

\* StrokeStore::translate_strokes (with translate_strokes_images)
translate_strokes(store, keys, offset) ==
    LET f(b) == AabbTranslate(b, offset) IN MapStrokes(store, keys, f)

\* a rotation by quarter turns about the centre
RotatePoint(p, center, quarters) ==
    LET v == VSub(p, center)
        w == CASE quarters = 0 -> v
               [] quarters = 1 -> <<RNeg(v[2]), v[1]>>
               [] quarters = 2 -> VNeg(v)
               [] OTHER -> <<v[2], RNeg(v[1])>>
    IN  VAdd(center, w)

RotateBounds(b, center, quarters) ==
    AabbNewPositive(RotatePoint(b.mins, center, quarters),
                    RotatePoint(b.maxs, center, quarters))

\* the quarter turns of an angle in degrees (a multiple of 90)
Quarters(angle) == (angle[1] \div 90) % 4

\* StrokeStore::rotate_strokes (with rotate_strokes_images)
rotate_strokes(store, keys, angle, center) ==
    LET f(b) == RotateBounds(b, center, Quarters(angle)) IN MapStrokes(store, keys, f)

\* the scaled copy of the bounds about the pivot
ScaleBoundsWithPivot(b, scale, pivot) ==
    AabbTranslate(AabbScaleNonUniform(AabbTranslate(b, VNeg(pivot)), scale), pivot)

\* StrokeStore::scale_strokes_with_pivot (with scale_strokes_images_with_pivot)
scale_strokes_with_pivot(store, keys, scale_stroke, scale_resize, pivot) ==
    LET f(b) == ScaleBoundsWithPivot(b, scale_resize, pivot) IN MapStrokes(store, keys, f)

(***************************************************************************)
(* The selector: its states                                                *)
(***************************************************************************)
Idle == [tag |-> "Idle"]
Selecting(path) == [tag |-> "Selecting", path |-> path]
ModifySelection(modify_state, selection, selection_bounds) ==
    [tag |-> "ModifySelection", modify_state |-> modify_state,
     selection |-> selection, selection_bounds |-> selection_bounds]

Up == [tag |-> "Up"]
Hover(pos) == [tag |-> "Hover", pos |-> pos]
Translate(start_pos, current_pos, snap_corner) ==
    [tag |-> "Translate", start_pos |-> start_pos, current_pos |-> current_pos,
     snap_corner |-> snap_corner]
Rotate(rotation_center, start_rotation_angle, current_rotation_angle) ==
    [tag |-> "Rotate", rotation_center |-> rotation_center,
     start_rotation_angle |-> start_rotation_angle,
     current_rotation_angle |-> current_rotation_angle]
Resize(from_corner, start_bounds, start_pos) ==
    [tag |-> "Resize", from_corner |-> from_corner, start_bounds |-> start_bounds,
     start_pos |-> start_pos]

GestureTags == {"Translate", "Rotate", "Resize"}
ResizeCorners == <<"TopLeft", "TopRight", "BottomLeft", "BottomRight">>

(***************************************************************************)
(* The selector: constants and helpers of the pen                          *)
(***************************************************************************)
TRANSLATE_OFFSET_THRESHOLD == 1
\* in degrees
ROTATE_ANGLE_THRESHOLD == <<1, 5>>
RESIZE_NODE_SIZE == 4
ROTATE_NODE_DIAMETER == 4

\* the corner of the bounds with the given name
CornerPos(bounds, corner) ==
    CASE corner = "TopLeft" -> bounds.mins
      [] corner = "TopRight" -> <<bounds.maxs[1], bounds.mins[2]>>
      [] corner = "BottomLeft" -> <<bounds.mins[1], bounds.maxs[2]>>
      [] OTHER -> bounds.maxs

\* Selector::resize_node_bounds
resize_node_bounds(position, selection_bounds) ==
    LET half == RDiv(<<RESIZE_NODE_SIZE, 2>>, R(total_zoom))
    IN  AabbFromHalfExtents(CornerPos(selection_bounds, position), <<half, half>>)

\* Selector::rotate_node_sphere
rotate_node_sphere(selection_bounds) ==
    [center |-> <<selection_bounds.maxs[1], Center(selection_bounds)[2]>>,
     radius |-> RDiv(<<ROTATE_NODE_DIAMETER, 2>>, R(total_zoom))]

\* DrawableOnDoc::bounds_on_doc of the selector in ModifySelection: the
\* selection bounds with the nodes around them
NodeMargin ==
    LET m == RDiv(RMax(R(RESIZE_NODE_SIZE), R(ROTATE_NODE_DIAMETER)), R(total_zoom))
    IN  <<m, m>>

RECURSIVE PathBounds(_)
PathBounds(path) ==
    IF Len(path) = 1 THEN Aabb(path[1], path[1])
    ELSE AabbMerged(Aabb(path[1], path[1]), PathBounds(Tail(path)))

bounds_on_doc(state) ==
    CASE state.tag = "Idle" -> None
      [] state.tag = "Selecting" ->
            IF state.path = <<>> THEN None ELSE Some(PathBounds(state.path))
      [] OTHER -> Some(AabbExtendBy(state.selection_bounds, NodeMargin))

\* Selector::add_to_select_path
add_to_select_path(style, path, element) ==
    CASE style \in {"Polygon", "IntersectingPath"} -> Append(path, element)
      [] style = "Rectangle" ->
            IF path = <<>> THEN <<element>> ELSE <<path[1], element>>
      [] OTHER -> <<element>>

\* SnapCorner::determine_from_bounds: the corner nearest to the position
determine_from_bounds(bounds, pos) ==
    LET c == Center(bounds)
        left == RLt(pos[1], c[1])
        top == RLt(pos[2], c[2])
    IN  CASE left /\ top -> "TopLeft"
          [] ~left /\ top -> "TopRight"
          [] left /\ ~top -> "BottomLeft"
          [] OTHER -> "BottomRight"

\* Vector2Ext::angle_ahead from the x axis, in degrees, of a vector that
\* lies on an axis or a diagonal (atan2(0, 0) is 0)
OnCompass(v) ==
    /\ IsFinite(v[1]) /\ IsFinite(v[2])
    /\ (v[1][1] = 0 \/ v[2][1] = 0 \/ RAbs(v[1]) = RAbs(v[2]))

angle_ahead(v) ==
    LET sx == Sign(v[1])
        sy == Sign(v[2])
    IN  CASE sy = 0 -> IF sx < 0 THEN R(180) ELSE R(0)
          [] sx = 0 -> IF sy > 0 THEN R(90) ELSE R(-90)
          [] sx > 0 -> IF sy > 0 THEN R(45) ELSE R(-45)
          [] OTHER -> IF sy > 0 THEN R(135) ELSE R(-135)

\* what a handler hands back: the selector state and the store after the
\* event, the event result, the widget flags and the commands it issued
Outcome(state, store, result, flags, cmds) ==
    [state |-> state, store |-> store, result |-> result, flags |-> flags,
     cmds |-> cmds, panicked |-> FALSE]

\* selector::cancel_selection
cancel_selection(selection, store) ==
    [store |-> set_selected_keys(store, selection, FALSE),
     flags |-> [DefaultFlags EXCEPT !.store_modified = TRUE],
     cmds |-> <<Cmd("set_selected_keys_false", selection)>>]

\* Selector::select_all
select_all(state, store, modifier_keys) ==
    LET all_strokes == stroke_keys_as_rendered(store)
        new_bounds == bounds_for_strokes(store, all_strokes)
    IN  IF IsSome(new_bounds)
        THEN [state |-> ModifySelection(Up, all_strokes, Unwrap(new_bounds)),
              store |-> set_selected_keys(store, all_strokes, TRUE),
              flags |-> [DefaultFlags EXCEPT !.store_modified = TRUE,
                                             !.deselect_color_setters = TRUE],
              cmds |-> <<Cmd("set_selected_keys_true", all_strokes),
                         Cmd("resize_autoexpand", <<>>),
                         Cmd("regenerate_rendering_for_strokes_threaded", all_strokes)>>]
        ELSE [state |-> state, store |-> store, flags |-> DefaultFlags, cmds |-> <<>>]

(***************************************************************************)
(* Selector::handle_pen_event_down                                         *)
(***************************************************************************)
Handled(progress) == EventResult(TRUE, "Stop", progress)
\* Unhandled that stops the propagation of the event
UnhandledButStopped(progress) == EventResult(FALSE, "Stop", progress)

Unhandled(progress) == EventResult(FALSE, "Proceed", progress)

StoreModified(flags) == [flags EXCEPT !.store_modified = TRUE]

\* the commands of a drag step that follow the change of the geometry
NudgeExpandRender ==
    <<Cmd("nudge_w_pos", <<>>), Cmd("expand_autoexpand", <<>>),
      Cmd("regenerate_rendering_in_viewport_threaded", <<>>)>>

\* DownIdle without the deselection of the strokes selected before
DownIdleKeepsSelection(store, element) ==
    Outcome(Selecting(<<element>>), store, Handled("InProgress"), DefaultFlags, <<>>)

\* in Idle: deselect on start, begin the path
DownIdle(store, element) ==
    LET selection_keys == selection_keys_as_rendered(store)
    IN  IF selection_keys # <<>>
        THEN Outcome(Selecting(<<element>>),
                     set_selected_keys(store, selection_keys, FALSE),
                     Handled("InProgress"), StoreModified(DefaultFlags),
                     <<Cmd("set_selected_keys_false", selection_keys)>>)
        ELSE Outcome(Selecting(<<element>>), store, Handled("InProgress"),
                     DefaultFlags, <<>>)

\* DownSelecting without the request of a re-render
DownSelectingNoRender(state, store, config, element) ==
    Outcome(Selecting(add_to_select_path(config.style, state.path, element)),
            store, Handled("InProgress"), DefaultFlags,
            <<Cmd("nudge_w_pos", <<>>), Cmd("expand_autoexpand", <<>>)>>)

\* in Selecting: extend the path
DownSelecting(state, store, config, element) ==
    Outcome(Selecting(add_to_select_path(config.style, state.path, element)),
            store, Handled("InProgress"), DefaultFlags, NudgeExpandRender)

\* the topmost stroke under the position
KeyToAdd(store, pos) == Pop(stroke_hitboxes_contain_coord(store, Viewport, pos))

\* AddToSelection under every style, Shift held or not
AddToSelectionAnyStyle(config, modifier_keys, store, pos) ==
    /\ IsSome(KeyToAdd(store, pos))
    /\ IsSome(selected(store, Unwrap(KeyToAdd(store, pos))))
    /\ ~Unwrap(selected(store, Unwrap(KeyToAdd(store, pos))))

\* AddToSelection that also takes a stroke that is selected already
AddToSelectionSelectedToo(config, modifier_keys, store, pos) ==
    /\ (config.style = "Single" \/ "KeyboardShift" \in modifier_keys)
    /\ IsSome(KeyToAdd(store, pos))

\* the condition of the add-to-selection branch
AddToSelection(config, modifier_keys, store, pos) ==
    /\ (config.style = "Single" \/ "KeyboardShift" \in modifier_keys)
    /\ IsSome(KeyToAdd(store, pos))
    /\ IsSome(selected(store, Unwrap(KeyToAdd(store, pos))))
    /\ ~Unwrap(selected(store, Unwrap(KeyToAdd(store, pos))))

InRotateNode(selection_bounds, pos) ==
    SphereContainsLocalPoint(rotate_node_sphere(selection_bounds), pos)

InResizeNode(corner, selection_bounds, pos) ==
    ContainsLocalPoint(resize_node_bounds(corner, selection_bounds), pos)

\* UpHoverBranch with the interior of the bounds tested before the nodes
UpHoverBranchInteriorFirst(config, modifier_keys, store, selection_bounds, pos) ==
    IF AddToSelection(config, modifier_keys, store, pos) THEN "add"
    ELSE IF ContainsLocalPoint(selection_bounds, pos) THEN "translate"
    ELSE IF InRotateNode(selection_bounds, pos) THEN "rotate"
    ELSE IF InResizeNode("TopLeft", selection_bounds, pos) THEN "TopLeft"
    ELSE IF InResizeNode("TopRight", selection_bounds, pos) THEN "TopRight"
    ELSE IF InResizeNode("BottomLeft", selection_bounds, pos) THEN "BottomLeft"
    ELSE IF InResizeNode("BottomRight", selection_bounds, pos) THEN "BottomRight"
    ELSE "deselect"

\* the branch a pointer-down takes in Up or Hover: the if / else-if chain
UpHoverBranch(config, modifier_keys, store, selection_bounds, pos) ==
    IF AddToSelection(config, modifier_keys, store, pos) THEN "add"
    ELSE IF InRotateNode(selection_bounds, pos) THEN "rotate"
    ELSE IF InResizeNode("TopLeft", selection_bounds, pos) THEN "TopLeft"
    ELSE IF InResizeNode("TopRight", selection_bounds, pos) THEN "TopRight"
    ELSE IF InResizeNode("BottomLeft", selection_bounds, pos) THEN "BottomLeft"
    ELSE IF InResizeNode("BottomRight", selection_bounds, pos) THEN "BottomRight"
    ELSE IF ContainsLocalPoint(selection_bounds, pos) THEN "translate"
    ELSE "deselect"

\* the result of every branch of ModifySelection
DownModifyOutcome(state, store, progress, cmds) ==
    Outcome(state, store, Handled(progress), StoreModified(DefaultFlags), cmds)

\* DownDeselect that leaves the strokes selected in the store
DownDeselectKeepsSelected(state, store) ==
    DownModifyOutcome(Idle, store, "Finished",
        <<Cmd("copy_ghost_stroke_width", state.selection)>>)

\* a click outside the selection bounds: reset
DownDeselect(state, store) ==
    DownModifyOutcome(Idle, set_selected_keys(store, state.selection, FALSE),
        "Finished",
        <<Cmd("copy_ghost_stroke_width", state.selection),
          Cmd("set_selected_keys_false", state.selection)>>)

\* in ModifySelection, Up or Hover
DownUpHover(state, store, config, element, modifier_keys) ==
    LET selection == state.selection
        selection_bounds == state.selection_bounds
        branch == UpHoverBranch(config, modifier_keys, store, selection_bounds, element)
    IN  CASE branch = "add" ->
               LET key_to_add == Unwrap(KeyToAdd(store, element))
                   added == Append(selection, key_to_add)
                   store2 == set_selected(store, key_to_add, TRUE)
                   new_bounds == bounds_for_strokes(store2, added)
               IN  DownModifyOutcome(
                       ModifySelection(state.modify_state, added,
                           IF IsSome(new_bounds) THEN Unwrap(new_bounds)
                           ELSE selection_bounds),
                       store2, "InProgress",
                       <<Cmd("copy_ghost_stroke_width", selection),
                         Cmd("set_selected_true", <<key_to_add>>)>>)
          [] branch = "rotate" ->
               LET rotation_angle == angle_ahead(VSub(element, Center(selection_bounds)))
               IN  DownModifyOutcome(
                       ModifySelection(
                           Rotate(Center(selection_bounds), rotation_angle, rotation_angle),
                           selection, selection_bounds),
                       store, "InProgress", <<>>)
          [] branch \in Range(ResizeCorners) ->
               DownModifyOutcome(
                   ModifySelection(Resize(branch, selection_bounds, element),
                                   selection, selection_bounds),
                   store, "InProgress", <<>>)
          [] branch = "translate" ->
               DownModifyOutcome(
                   ModifySelection(
                       Translate(element, element,
                                 determine_from_bounds(selection_bounds, element)),
                       selection, selection_bounds),
                   store, "InProgress", <<>>)
          [] OTHER -> DownDeselect(state, store)

\* TranslateOffset with the position of the pointer snapped, not the corner
TranslateOffsetOfPointer(config, selection_bounds, modify_state, element) ==
    VSub(snap_position(config.snap_positions, element), modify_state.current_pos)

\* the candidate offset of a Translate step
TranslateOffset(config, selection_bounds, modify_state, element) ==
    LET snap_corner_pos == CornerPos(selection_bounds, modify_state.snap_corner)
    IN  VSub(snap_position(config.snap_positions,
                 VAdd(snap_corner_pos, VSub(element, modify_state.current_pos))),
             snap_corner_pos)

\* TranslateApplies with the threshold taken as zero
TranslateAppliesToAnyOffset(offset) == RLt(R(0), VMagnitudeSquared(offset))

\* offset.magnitude() > TRANSLATE_OFFSET_THRESHOLD / total_zoom
TranslateApplies(offset) ==
    LET t == RDiv(R(TRANSLATE_OFFSET_THRESHOLD), R(total_zoom))
    IN  RLt(RMul(t, t), VMagnitudeSquared(offset))

\* DownTranslate that moves the strokes without a request of a re-render
DownTranslateNoRender(state, store, config, element) ==
    LET ms == state.modify_state
        offset == TranslateOffset(config, state.selection_bounds, ms, element)
    IN  IF TranslateApplies(offset)
        THEN DownModifyOutcome(
                 ModifySelection(
                     [ms EXCEPT !.current_pos = VAdd(@, offset)],
                     state.selection, AabbTranslate(state.selection_bounds, offset)),
                 translate_strokes(store, state.selection, offset), "InProgress",
                 <<Cmd("translate_strokes", state.selection),
                   Cmd("translate_strokes_images", state.selection)>>)
        ELSE DownModifyOutcome(state, store, "InProgress", NudgeExpandRender)

\* DownTranslate that moves the selection and leaves current_pos behind
DownTranslateKeepsCurrentPos(state, store, config, element) ==
    LET ms == state.modify_state
        offset == TranslateOffset(config, state.selection_bounds, ms, element)
    IN  IF TranslateApplies(offset)
        THEN DownModifyOutcome(
                 ModifySelection(ms, state.selection,
                                 AabbTranslate(state.selection_bounds, offset)),
                 translate_strokes(store, state.selection, offset), "InProgress",
                 <<Cmd("translate_strokes", state.selection),
                   Cmd("translate_strokes_images", state.selection)>>
                 \o NudgeExpandRender)
        ELSE DownModifyOutcome(state, store, "InProgress", NudgeExpandRender)

\* in ModifySelection, Translate
DownTranslate(state, store, config, element) ==
    LET ms == state.modify_state
        offset == TranslateOffset(config, state.selection_bounds, ms, element)
    IN  IF TranslateApplies(offset)
        THEN DownModifyOutcome(
                 ModifySelection(
                     [ms EXCEPT !.current_pos = VAdd(@, offset)],
                     state.selection, AabbTranslate(state.selection_bounds, offset)),
                 translate_strokes(store, state.selection, offset), "InProgress",
                 <<Cmd("translate_strokes", state.selection),
                   Cmd("translate_strokes_images", state.selection)>>
                 \o NudgeExpandRender)
        ELSE DownModifyOutcome(state, store, "InProgress", NudgeExpandRender)

\* RotateApplies for a turn ahead only
RotateAppliesAheadOnly(angle_delta) == RLt(ROTATE_ANGLE_THRESHOLD, angle_delta)

\* angle_delta.abs() > ROTATE_ANGLE_THRESHOLD
RotateApplies(angle_delta) == RLt(ROTATE_ANGLE_THRESHOLD, RAbs(angle_delta))

\* DownRotate that takes the angle it turned to as the start of the gesture
DownRotateRestarts(state, store, element) ==
    LET ms == state.modify_state
        new_rotation_angle == angle_ahead(VSub(element, ms.rotation_center))
        angle_delta == RSub(new_rotation_angle, ms.current_rotation_angle)
    IN  IF RotateApplies(angle_delta)
        THEN LET store2 == rotate_strokes(store, state.selection, angle_delta,
                                          ms.rotation_center)
                 new_bounds == bounds_for_strokes(store2, state.selection)
             IN  DownModifyOutcome(
                     ModifySelection(
                         [ms EXCEPT !.current_rotation_angle = new_rotation_angle,
                                    !.start_rotation_angle = new_rotation_angle],
                         state.selection,
                         IF IsSome(new_bounds) THEN Unwrap(new_bounds)
                         ELSE state.selection_bounds),
                     store2, "InProgress",
                     <<Cmd("rotate_strokes", state.selection),
                       Cmd("rotate_strokes_images", state.selection),
                       Cmd("bounds_for_strokes", state.selection)>>)
        ELSE DownModifyOutcome(state, store, "InProgress", <<>>)

\* in ModifySelection, Rotate
DownRotate(state, store, element) ==
    LET ms == state.modify_state
        new_rotation_angle == angle_ahead(VSub(element, ms.rotation_center))
        angle_delta == RSub(new_rotation_angle, ms.current_rotation_angle)
    IN  IF RotateApplies(angle_delta)
        THEN LET store2 == rotate_strokes(store, state.selection, angle_delta,
                                          ms.rotation_center)
                 new_bounds == bounds_for_strokes(store2, state.selection)
             IN  DownModifyOutcome(
                     ModifySelection(
                         [ms EXCEPT !.current_rotation_angle = new_rotation_angle],
                         state.selection,
                         IF IsSome(new_bounds) THEN Unwrap(new_bounds)
                         ELSE state.selection_bounds),
                     store2, "InProgress",
                     <<Cmd("rotate_strokes", state.selection),
                       Cmd("rotate_strokes_images", state.selection),
                       Cmd("bounds_for_strokes", state.selection)>>)
        ELSE DownModifyOutcome(state, store, "InProgress", <<>>)

\* ResizeSnapCornerPos at the corner opposite the dragged one
ResizeSnapCornerPosOpposite(from_corner, start_bounds) ==
    CASE from_corner = "TopLeft" -> start_bounds.maxs
      [] from_corner = "TopRight" -> <<start_bounds.mins[1], start_bounds.maxs[2]>>
      [] from_corner = "BottomLeft" -> <<start_bounds.maxs[1], start_bounds.mins[2]>>
      [] OTHER -> start_bounds.mins

\* the corner of start_bounds the resize offset is snapped against
ResizeSnapCornerPos(from_corner, start_bounds) == CornerPos(start_bounds, from_corner)

\* ResizePivot at the dragged corner
ResizePivotAtFromCorner(from_corner, start_bounds) == CornerPos(start_bounds, from_corner)

\* the point the scale keeps fixed
ResizePivot(from_corner, start_bounds) ==
    CASE from_corner = "TopLeft" -> start_bounds.maxs
      [] from_corner = "TopRight" -> <<start_bounds.mins[1], start_bounds.maxs[2]>>
      [] from_corner = "BottomLeft" -> <<start_bounds.maxs[1], start_bounds.mins[2]>>
      [] OTHER -> start_bounds.mins

\* the offset with growth positive on both axes
MirrorOffset(from_corner, offset) ==
    CASE from_corner = "TopLeft" -> VNeg(offset)
      [] from_corner = "TopRight" -> <<offset[1], RNeg(offset[2])>>
      [] from_corner = "BottomLeft" -> <<RNeg(offset[1]), offset[2]>>
      [] OTHER -> offset

LockAspectratio(config, modifier_keys) ==
    config.resize_lock_aspectratio \/ "KeyboardCtrl" \in modifier_keys

\* offset_to_start, as it enters the scale
ResizeOffset(config, modifier_keys, ms, element) ==
    LET lock_aspectratio == LockAspectratio(config, modifier_keys)
        snap_corner_pos == ResizeSnapCornerPos(ms.from_corner, ms.start_bounds)
        raw == VSub(element, ms.start_pos)
        snapped == IF ~lock_aspectratio
                   THEN VSub(snap_position(config.snap_positions,
                                           VAdd(snap_corner_pos, raw)),
                             snap_corner_pos)
                   ELSE raw
        mirrored == MirrorOffset(ms.from_corner, snapped)
        start_extents == Extents(ms.start_bounds)
    IN  IF lock_aspectratio
        THEN VScale(start_extents, RDiv(VMean(mirrored), VMean(start_extents)))
        ELSE mirrored

\* 1e-2 / extent on both axes
MinExtents(selection_bounds) ==
    <<RDiv(<<1, 100>>, Extents(selection_bounds)[1]),
      RDiv(<<1, 100>>, Extents(selection_bounds)[2])>>

\* set_positive: 1e-15 in the source, a positive value below every other
\* positive value of the computation; 1e-3 keeps the products within 32-bit
\* integers and acts the same under the 1e-2 floor
SetPositive == <<1, 1000>>

FiniteOrZero(x) == IF ~IsFinite(x) THEN R(0) ELSE x

\* ScaleResize with the new extents divided by those of start_bounds
ScaleResizeFromStartBounds(start_bounds, offset_to_start, selection_bounds) ==
    LET forced == VMaxs(VAdd(Extents(start_bounds), offset_to_start),
                        <<SetPositive, SetPositive>>)
        divided == VComponentDiv(forced, Extents(start_bounds))
        finite == <<FiniteOrZero(divided[1]), FiniteOrZero(divided[2])>>
    IN  VMaxs(finite, MinExtents(selection_bounds))

\* ScaleResize that scales the current extents by the offset, in place of
\* dividing the new extents by them
ScaleResizeRelative(start_bounds, offset_to_start, selection_bounds) ==
    LET forced == VMaxs(VAdd(Extents(selection_bounds), offset_to_start),
                        <<SetPositive, SetPositive>>)
        divided == VComponentDiv(forced, Extents(selection_bounds))
        finite == <<FiniteOrZero(divided[1]), FiniteOrZero(divided[2])>>
    IN  VMaxs(finite, MinExtents(selection_bounds))

ScaleResize(start_bounds, offset_to_start, selection_bounds) ==
    LET forced == VMaxs(VAdd(Extents(start_bounds), offset_to_start),
                        <<SetPositive, SetPositive>>)
        divided == VComponentDiv(forced, Extents(selection_bounds))
        finite == <<FiniteOrZero(divided[1]), FiniteOrZero(divided[2])>>
    IN  VMaxs(finite, MinExtents(selection_bounds))

\* DownResize whose unwrap of initial_size_selection aborts whatever it holds
DownResizeAlwaysAborts(state, store, config, element, modifier_keys) ==
    [Outcome(state, store, Handled("InProgress"), DefaultFlags, <<>>)
        EXCEPT !.panicked = TRUE]

\* in ModifySelection, Resize
DownResize(state, store, config, element, modifier_keys) ==
    LET ms == state.modify_state
        pivot == ResizePivot(ms.from_corner, ms.start_bounds)
        offset_to_start == ResizeOffset(config, modifier_keys, ms, element)
        scale_resize == ScaleResize(ms.start_bounds, offset_to_start,
                                    state.selection_bounds)
    IN  IF ~IsSome(store.initial_size_selection)
        THEN \* initial_size_selection.unwrap() panics
             [Outcome(state, store, Handled("InProgress"), DefaultFlags, <<>>)
                 EXCEPT !.panicked = TRUE]
        ELSE DownModifyOutcome(
                 ModifySelection(ms, state.selection,
                     ScaleBoundsWithPivot(state.selection_bounds, scale_resize, pivot)),
                 scale_strokes_with_pivot(store, state.selection, scale_resize,
                                          scale_resize, pivot),
                 "InProgress",
                 <<Cmd("scale_strokes_with_pivot", state.selection),
                   Cmd("scale_strokes_images_with_pivot", state.selection)>>
                 \o NudgeExpandRender)

handle_pen_event_down(state, store, config, element, modifier_keys) ==
    CASE state.tag = "Idle" -> DownIdle(store, element)
      [] state.tag = "Selecting" -> DownSelecting(state, store, config, element)
      [] OTHER ->
           CASE state.modify_state.tag \in {"Up", "Hover"} ->
                    DownUpHover(state, store, config, element, modifier_keys)
             [] state.modify_state.tag = "Translate" ->
                    DownTranslate(state, store, config, element)
             [] state.modify_state.tag = "Rotate" ->
                    DownRotate(state, store, element)
             [] OTHER -> DownResize(state, store, config, element, modifier_keys)

(***************************************************************************)
(* Selector::handle_pen_event_up                                           *)
(***************************************************************************)
\* NewSelection where every style picks the strokes under the last point of
\* the path
NewSelectionUnderLastPoint(style, path, store) ==
    IF path # <<>>
    THEN stroke_hitboxes_contain_coord(store, Viewport, Last(path))
    ELSE <<>>

\* NewSelection where Polygon and IntersectingPath query the store whatever
\* the length of the path
NewSelectionAnyLength(style, path, store) ==
    CASE style = "Polygon" ->
            strokes_hitboxes_contained_in_path_polygon(store, path, Viewport)
      [] style = "Rectangle" ->
            IF path # <<>>
            THEN strokes_hitboxes_contained_in_aabb(store,
                     AabbNewPositive(path[1], Last(path)), Viewport)
            ELSE <<>>
      [] style = "Single" ->
            IF path # <<>> /\ IsSome(KeyToAdd(store, Last(path)))
            THEN <<Unwrap(KeyToAdd(store, Last(path)))>>
            ELSE <<>>
      [] OTHER -> strokes_hitboxes_intersect_path(store, path, Viewport)

\* NewSelection where Rectangle takes the first point of the path as the
\* lower and the last as the upper corner, in that order
NewSelectionUnorderedCorners(style, path, store) ==
    CASE style = "Polygon" ->
            IF Len(path) >= 3
            THEN strokes_hitboxes_contained_in_path_polygon(store, path, Viewport)
            ELSE <<>>
      [] style = "Rectangle" ->
            IF path # <<>>
            THEN strokes_hitboxes_contained_in_aabb(store,
                     Aabb(path[1], Last(path)), Viewport)
            ELSE <<>>
      [] style = "Single" ->
            IF path # <<>> /\ IsSome(KeyToAdd(store, Last(path)))
            THEN <<Unwrap(KeyToAdd(store, Last(path)))>>
            ELSE <<>>
      [] OTHER ->
            IF Len(path) >= 3
            THEN strokes_hitboxes_intersect_path(store, path, Viewport)
            ELSE <<>>

\* the strokes the path selects under the style
NewSelection(style, path, store) ==
    CASE style = "Polygon" ->
            IF Len(path) >= 3
            THEN strokes_hitboxes_contained_in_path_polygon(store, path, Viewport)
            ELSE <<>>
      [] style = "Rectangle" ->
            IF path # <<>>
            THEN strokes_hitboxes_contained_in_aabb(store,
                     AabbNewPositive(path[1], Last(path)), Viewport)
            ELSE <<>>
      [] style = "Single" ->
            IF path # <<>> /\ IsSome(KeyToAdd(store, Last(path)))
            THEN <<Unwrap(KeyToAdd(store, Last(path)))>>
            ELSE <<>>
      [] OTHER ->
            IF Len(path) >= 3
            THEN strokes_hitboxes_intersect_path(store, path, Viewport)
            ELSE <<>>

\* UpSelecting whose progress is Finished whatever was selected
UpSelectingAlwaysFinished(state, store, config) ==
    LET new_selection == NewSelection(config.style, state.path, store)
        store2 == set_selected_keys(store, new_selection, TRUE)
        new_bounds == bounds_for_strokes(store2, new_selection)
        flags == [DefaultFlags EXCEPT !.store_modified = TRUE,
                                      !.deselect_color_setters = TRUE]
    IN  IF new_selection # <<>> /\ IsSome(new_bounds)
        THEN Outcome(ModifySelection(Up, new_selection, Unwrap(new_bounds)),
                     store2, Handled("Finished"), flags,
                     <<Cmd("set_selected_keys_true", new_selection)>>)
        ELSE Outcome(state, store, Handled("Finished"), DefaultFlags, <<>>)

\* in Selecting: finish the selection
UpSelecting(state, store, config) ==
    LET new_selection == NewSelection(config.style, state.path, store)
        store2 == set_selected_keys(store, new_selection, TRUE)
        new_bounds == bounds_for_strokes(store2, new_selection)
        flags == [DefaultFlags EXCEPT !.store_modified = TRUE,
                                      !.deselect_color_setters = TRUE]
    IN  IF new_selection # <<>>
        THEN IF IsSome(new_bounds)
             THEN Outcome(ModifySelection(Up, new_selection, Unwrap(new_bounds)),
                          store2, Handled("InProgress"), flags,
                          <<Cmd("set_selected_keys_true", new_selection)>>)
             ELSE Outcome(state, store2, Handled("Finished"), flags,
                          <<Cmd("set_selected_keys_true", new_selection)>>)
        ELSE Outcome(state, store, Handled("Finished"), DefaultFlags, <<>>)

\* HoverOrUp that never hovers
HoverOrUpAlwaysUp(selector_bounds, pos) == Up

\* Hover when the position is inside the bounds of the selector, else Up
HoverOrUp(selector_bounds, pos) ==
    IF IsSome(selector_bounds) /\ ContainsLocalPoint(Unwrap(selector_bounds), pos)
    THEN Hover(pos)
    ELSE Up

\* the commands that end a gesture
GestureCommit(selection) ==
    <<Cmd("update_geometry_for_strokes", selection),
      Cmd("resize_autoexpand", <<>>),
      Cmd("regenerate_rendering_in_viewport_threaded", <<>>),
      Cmd("bounds_for_strokes", selection),
      Cmd("record", <<>>)>>

\* in ModifySelection
UpModifySelection(state, store, element) ==
    LET selector_bounds == bounds_on_doc(state)
        new_bounds == bounds_for_strokes(store, state.selection)
        modify_state == HoverOrUp(selector_bounds, element)
    IN  IF state.modify_state.tag \in GestureTags
        THEN Outcome(ModifySelection(modify_state, state.selection,
                         IF IsSome(new_bounds) THEN Unwrap(new_bounds)
                         ELSE state.selection_bounds),
                     record(store), Handled("InProgress"),
                     StoreModified(DefaultFlags), GestureCommit(state.selection))
        ELSE Outcome(ModifySelection(modify_state, state.selection,
                                     state.selection_bounds),
                     store, Handled("InProgress"), DefaultFlags, <<>>)

\* handle_pen_event_up that swallows the event in Idle
handle_pen_event_upSwallowedInIdle(state, store, config, element) ==
    CASE state.tag = "Idle" -> Outcome(state, store, Handled("Idle"), DefaultFlags, <<>>)
      [] state.tag = "Selecting" -> UpSelecting(state, store, config)
      [] OTHER -> UpModifySelection(state, store, element)

handle_pen_event_up(state, store, config, element) ==
    CASE state.tag = "Idle" -> Outcome(state, store, Unhandled("Idle"), DefaultFlags, <<>>)
      [] state.tag = "Selecting" -> UpSelecting(state, store, config)
      [] OTHER -> UpModifySelection(state, store, element)

(***************************************************************************)
(* Selector::handle_pen_event_proximity                                    *)
(***************************************************************************)
\* handle_pen_event_proximity that leaves a running gesture alone
handle_pen_event_proximityKeepsGesture(state, store, element) ==
    CASE state.tag = "Idle" -> Outcome(state, store, Unhandled("Idle"), DefaultFlags, <<>>)
      [] state.tag = "Selecting" ->
            Outcome(state, store, Handled("InProgress"), DefaultFlags, <<>>)
      [] OTHER ->
            Outcome(IF state.modify_state.tag \in GestureTags THEN state
                    ELSE [state EXCEPT !.modify_state =
                                           HoverOrUp(bounds_on_doc(state), element)],
                    store, Handled("InProgress"), DefaultFlags, <<>>)

handle_pen_event_proximity(state, store, element) ==
    CASE state.tag = "Idle" -> Outcome(state, store, Unhandled("Idle"), DefaultFlags, <<>>)
      [] state.tag = "Selecting" ->
            Outcome(state, store, Handled("InProgress"), DefaultFlags, <<>>)
      [] OTHER ->
            Outcome([state EXCEPT !.modify_state = HoverOrUp(bounds_on_doc(state), element)],
                    store, Handled("InProgress"), DefaultFlags, <<>>)

(***************************************************************************)
(* Selector::handle_pen_event_keypressed                                   *)
(***************************************************************************)
\* KeySelectAll that passes the key on while a path is drawn
KeySelectAllNotInSelecting(state, store, modifier_keys) ==
    LET all == select_all(state, store, modifier_keys)
    IN  IF state.tag = "Selecting"
        THEN Outcome(state, store, Unhandled("InProgress"), DefaultFlags, <<>>)
        ELSE Outcome(all.state, all.store, Handled("InProgress"), all.flags, all.cmds)

\* the key 'a', in every state
KeySelectAll(state, store, modifier_keys) ==
    LET all == select_all(state, store, modifier_keys)
    IN  Outcome(all.state, all.store, Handled("InProgress"), all.flags, all.cmds)

\* KeyDuplicate that duplicates whether Ctrl is held or not
KeyDuplicateUngated(state, store, modifier_keys) ==
    Outcome(state, record(store), Handled("Finished"),
            [DefaultFlags EXCEPT !.resize = TRUE, !.store_modified = TRUE],
            <<Cmd("duplicate_selection", <<>>),
              Cmd("update_geometry_for_strokes", <<>>),
              Cmd("regenerate_rendering_for_strokes_threaded", <<>>),
              Cmd("record", <<>>)>>)

\* the key 'd' in ModifySelection
KeyDuplicate(state, store, modifier_keys) ==
    IF "KeyboardCtrl" \in modifier_keys
    THEN Outcome(state, record(store), Handled("Finished"),
                 [DefaultFlags EXCEPT !.resize = TRUE, !.store_modified = TRUE],
                 <<Cmd("duplicate_selection", <<>>),
                   Cmd("update_geometry_for_strokes", <<>>),
                   Cmd("regenerate_rendering_for_strokes_threaded", <<>>),
                   Cmd("record", <<>>)>>)
    ELSE Outcome(state, store, Handled("Finished"), DefaultFlags, <<>>)

\* KeyDelete that trashes every stroke of the document
KeyDeleteTrashesEveryStroke(state, store) ==
    LET trashed == set_trashed_keys(store, stroke_keys_as_rendered(store), TRUE)
        cancelled == cancel_selection(state.selection, trashed)
    IN  Outcome(Idle, cancelled.store, Handled("Finished"),
                FlagsOr(DefaultFlags, cancelled.flags),
                <<Cmd("set_trashed_keys_true", state.selection)>> \o cancelled.cmds)

\* Delete or BackSpace in ModifySelection
KeyDelete(state, store) ==
    LET trashed == set_trashed_keys(store, state.selection, TRUE)
        cancelled == cancel_selection(state.selection, trashed)
    IN  Outcome(Idle, cancelled.store, Handled("Finished"),
                FlagsOr(DefaultFlags, cancelled.flags),
                <<Cmd("set_trashed_keys_true", state.selection)>> \o cancelled.cmds)

\* KeyEscape that cancels the selection and stays in ModifySelection
KeyEscapeKeepsState(state, store) ==
    LET cancelled == cancel_selection(state.selection, store)
    IN  Outcome(state, cancelled.store, Handled("Finished"),
                FlagsOr(DefaultFlags, cancelled.flags), cancelled.cmds)

\* Escape in ModifySelection
KeyEscape(state, store) ==
    LET cancelled == cancel_selection(state.selection, store)
    IN  Outcome(Idle, cancelled.store, Handled("Finished"),
                FlagsOr(DefaultFlags, cancelled.flags), cancelled.cmds)

\* handle_pen_event_keypressed where Escape also drops a path that is drawn
handle_pen_event_keypressedEscapeInSelecting(state, store, keyboard_key, modifier_keys) ==
    CASE keyboard_key = "a" -> KeySelectAll(state, store, modifier_keys)
      [] state.tag = "Selecting" /\ keyboard_key = "Escape" ->
            Outcome(Idle, store, Handled("Finished"), DefaultFlags, <<>>)
      [] state.tag # "ModifySelection" ->
            Outcome(state, store, Unhandled("InProgress"), DefaultFlags, <<>>)
      [] keyboard_key = "d" -> KeyDuplicate(state, store, modifier_keys)
      [] keyboard_key \in {"Delete", "BackSpace"} -> KeyDelete(state, store)
      [] keyboard_key = "Escape" -> KeyEscape(state, store)
      [] OTHER -> Outcome(state, store, Unhandled("InProgress"), DefaultFlags, <<>>)

handle_pen_event_keypressed(state, store, keyboard_key, modifier_keys) ==
    CASE keyboard_key = "a" -> KeySelectAll(state, store, modifier_keys)
      [] state.tag # "ModifySelection" ->
            Outcome(state, store, Unhandled("InProgress"), DefaultFlags, <<>>)
      [] keyboard_key = "d" -> KeyDuplicate(state, store, modifier_keys)
      [] keyboard_key \in {"Delete", "BackSpace"} -> KeyDelete(state, store)
      [] keyboard_key = "Escape" -> KeyEscape(state, store)
      [] OTHER -> Outcome(state, store, Unhandled("InProgress"), DefaultFlags, <<>>)

(***************************************************************************)
(* Selector::handle_pen_event_text                                         *)
(***************************************************************************)
\* handle_pen_event_text that swallows the text while a path is drawn
handle_pen_event_textSwallowedInSelecting(state, store) ==
    IF state.tag = "Selecting"
    THEN Outcome(state, store, Handled("InProgress"), DefaultFlags, <<>>)
    ELSE Outcome(state, store,
                 Unhandled(IF state.tag = "Idle" THEN "Idle" ELSE "InProgress"),
                 DefaultFlags, <<>>)

handle_pen_event_text(state, store) ==
    Outcome(state, store,
            Unhandled(IF state.tag = "Idle" THEN "Idle" ELSE "InProgress"),
            DefaultFlags, <<>>)

(***************************************************************************)
(* Selector::handle_pen_event_cancel                                       *)
(***************************************************************************)
\* in Selecting: drop the path
CancelSelecting(state, store) ==
    Outcome(Idle, store, Handled("Finished"), DefaultFlags, <<>>)

\* CancelModifySelection that ends the gesture and keeps the selection
CancelModifySelectionKeepsSelection(state, store) ==
    Outcome(ModifySelection(Up, state.selection, state.selection_bounds),
            store, Handled("Finished"), DefaultFlags, <<>>)

\* in ModifySelection: cancel the selection
CancelModifySelection(state, store) ==
    LET cancelled == cancel_selection(state.selection, store)
    IN  Outcome(Idle, cancelled.store, Handled("Finished"),
                FlagsOr(DefaultFlags, cancelled.flags), cancelled.cmds)

handle_pen_event_cancel(state, store) ==
    CASE state.tag = "Idle" -> Outcome(state, store, Unhandled("Idle"), DefaultFlags, <<>>)
      [] state.tag = "Selecting" -> CancelSelecting(state, store)
      [] OTHER -> CancelModifySelection(state, store)

(***************************************************************************)
(* The state of the program                                                *)
(***************************************************************************)
VARIABLES
    state,      \* Selector::state
    store,      \* the stroke store: strokes, initial_size_selection, history
    config,     \* pens_config.selector_config and the document's snapping
    ev,         \* the event handled last
    prev,       \* the selector state that event was handled in
    result,     \* the EventResult the handler returned
    flags,      \* the WidgetFlags the handler returned
    cmds,       \* the commands the handler issued, in order
    nevents,    \* the number of events handled
    panicked,   \* an unwrap of None aborted the program
    in_drag,    \* a pointer-down began a gesture and no pointer-up followed yet
    pending     \* the render requests sent to tasks_tx and not yet completed

vars ==
    <<state, store, config, ev, prev, result, flags, cmds, nevents, panicked, in_drag,
      pending>>

\* the positions of the pointer
Points ==
    {Vec(5, 5), Vec(15, 15), Vec(50, 50), Vec(10, 5), Vec(10, 10), Vec(0, 0),
     Vec(42, 42), Vec(44, 42), Vec(42, 40)}

\* the positions of the pointer in the drag behaviours
DragPoints ==
    {Vec(5, 5), Vec(10, 5), Vec(5, 10), Vec(10, 10), Vec(0, 0), Vec(15, 15),
     Vec(50, 50)}

Configs ==
    [style : SelectorStyles, resize_lock_aspectratio : BOOLEAN,
     snap_positions : BOOLEAN]

\* the strokes selected before the first event
InitiallySelected == {{}, {1}}

InitStore(sel) ==
    LET strokes == [k \in Keys |-> Stroke(InitialBounds(k), k \in sel, FALSE)]
    IN  [strokes |-> strokes,
         initial_size_selection |-> InitialSizeAfterSelecting(strokes),
         history |-> 0,
         components |-> TRUE]

\* the render queue is followed in the behaviours that begin with it empty;
\* in the others it is left out
NotFollowed == {0}

NoEvent == [kind |-> "none", pos |-> <<>>, key |-> "none", modifier_keys |-> {}]
PointerEvent(kind, pos, modifier_keys) ==
    [kind |-> kind, pos |-> pos, key |-> "none", modifier_keys |-> modifier_keys]
KeyEvent(key, modifier_keys) ==
    [kind |-> "key", pos |-> <<>>, key |-> key, modifier_keys |-> modifier_keys]
OtherEvent(kind) == [kind |-> kind, pos |-> <<>>, key |-> "none", modifier_keys |-> {}]

InitWith(C, S) ==
    /\ state = Idle
    /\ config \in C
    /\ \E sel \in S : store = InitStore(sel)
    /\ ev = NoEvent
    /\ prev = Idle
    /\ result = Unhandled("Idle")
    /\ flags = DefaultFlags
    /\ cmds = <<>>
    /\ nevents = 0
    /\ panicked = FALSE
    /\ in_drag = FALSE
    /\ pending = NotFollowed

Init == InitWith(Configs, InitiallySelected)

InGesture(s) == s.tag = "ModifySelection" /\ s.modify_state.tag \in GestureTags
InUpOrHover(s) == s.tag = "ModifySelection" /\ s.modify_state.tag \in {"Up", "Hover"}

\* a drag begins with the pointer-down that enters Translate, Rotate or
\* Resize and lasts up to the next pointer-up, or to the event that leaves
\* ModifySelection
DragAfter(drag, before, after, e) ==
    IF e.kind = "up" \/ after.tag # "ModifySelection" THEN FALSE
    ELSE IF e.kind = "down" /\ InUpOrHover(before) /\ InGesture(after) THEN TRUE
    ELSE drag

\* the handler sent a render request through tasks_tx
RenderRequested(commands) ==
    \E i \in DOMAIN commands :
        commands[i].op \in {"regenerate_rendering_in_viewport_threaded",
                            "regenerate_rendering_for_strokes_threaded"}

\* the requests in flight after the handler of event n issued the commands;
\* a request is named by the number of its event
Sent(requests, commands, n) ==
    IF requests # NotFollowed /\ RenderRequested(commands)
    THEN requests \cup {n}
    ELSE requests

\* the event is handled: the handler's outcome becomes the state
Apply(o, e) ==
    /\ state' = o.state
    /\ store' = o.store
    /\ result' = o.result
    /\ flags' = o.flags
    /\ cmds' = o.cmds
    /\ panicked' = o.panicked
    /\ ev' = e
    /\ prev' = state
    /\ nevents' = nevents + 1
    /\ in_drag' = DragAfter(in_drag, state, o.state, e)
    /\ pending' = Sent(pending, o.cmds, nevents + 1)
    /\ UNCHANGED config

\* Running where a handler starts once every render request has completed
RunningOnceRendered(max) == nevents < max /\ ~panicked /\ pending \subseteq NotFollowed

Running(max) == nevents < max /\ ~panicked

\* the angles of the model are those of the axes and diagonals, its
\* rotations quarter turns: a pointer position that asks for another angle
\* is not among the inputs
AngleModelled(pos, modifier_keys) ==
    IF state.tag # "ModifySelection" THEN TRUE
    ELSE CASE state.modify_state.tag \in {"Up", "Hover"} ->
                 UpHoverBranch(config, modifier_keys, store, state.selection_bounds, pos)
                     = "rotate"
                 => OnCompass(VSub(pos, Center(state.selection_bounds)))
           [] state.modify_state.tag = "Rotate" ->
                 /\ OnCompass(VSub(pos, state.modify_state.rotation_center))
                 /\ RSub(angle_ahead(VSub(pos, state.modify_state.rotation_center)),
                         state.modify_state.current_rotation_angle)[1] % 90 = 0
           [] OTHER -> TRUE

\* the modifier keys a pointer-down is tried with: those its branch reads
\* (Shift in Up and Hover, Ctrl in Resize)
DownModifiers ==
    IF state.tag # "ModifySelection" THEN {{}}
    ELSE CASE state.modify_state.tag \in {"Up", "Hover"} -> {{}, {"KeyboardShift"}}
           [] state.modify_state.tag = "Resize" -> {{}, {"KeyboardCtrl"}}
           [] OTHER -> {{}}

\* the modifier keys a key press is tried with
KeyModifiers(keyboard_key) ==
    IF keyboard_key \in {"a", "d"} THEN {{}, {"KeyboardCtrl"}} ELSE {{}}

PenDown(P, max) ==
    /\ Running(max)
    /\ \E pos \in P, modifier_keys \in DownModifiers :
          /\ AngleModelled(pos, modifier_keys)
          /\ Apply(handle_pen_event_down(state, store, config, pos, modifier_keys),
                   PointerEvent("down", pos, modifier_keys))

PenUp(P, max) ==
    /\ Running(max)
    /\ \E pos \in P :
          Apply(handle_pen_event_up(state, store, config, pos),
                PointerEvent("up", pos, {}))

PenProximity(P, max) ==
    /\ Running(max)
    /\ \E pos \in P :
          Apply(handle_pen_event_proximity(state, store, pos),
                PointerEvent("proximity", pos, {}))

KeyPressed(K, max) ==
    /\ Running(max)
    /\ \E keyboard_key \in K : \E modifier_keys \in KeyModifiers(keyboard_key) :
          Apply(handle_pen_event_keypressed(state, store, keyboard_key, modifier_keys),
                KeyEvent(keyboard_key, modifier_keys))

TextInput(max) ==
    /\ Running(max)
    /\ Apply(handle_pen_event_text(state, store), OtherEvent("text"))

PenCancel(max) ==
    /\ Running(max)
    /\ Apply(handle_pen_event_cancel(state, store), OtherEvent("cancel"))

\* every event, from Idle, under every configuration
Next ==
    \/ PenDown(Points, MaxEvents)
    \/ PenUp(Points, MaxEvents)
    \/ PenProximity(Points, MaxEvents)
    \/ KeyPressed(KeyboardKeys, MaxEvents)
    \/ TextInput(MaxEvents)
    \/ PenCancel(MaxEvents)

Spec == Init /\ [][Next]_vars

\* longer runs of pointer events around the stroke of key 2, picked with
\* the Single style
InitDrag == InitWith({c \in Configs : c.style = "Single"}, {{}})

NextDrag ==
    \/ PenDown(DragPoints, MaxDragEvents)
    \/ PenUp(DragPoints, MaxDragEvents)
    \/ PenProximity(DragPoints, MaxDragEvents)

SpecDrag == InitDrag /\ [][NextDrag]_vars

\* the hit test of a pointer-down around the small stroke of key 3, picked
\* with the Single style or framed with the Rectangle style: positions in
\* and around its bounds (40, 40)-(44, 44) and each of its nodes, and one
\* on the strokes of keys 1 and 2
MaxHitEvents == 4

HitPoints ==
    {Vec(40, 40), Vec(44, 44), Vec(42, 42), Vec(44, 42), Vec(42, 40), Vec(42, 44),
     Vec(46, 42), Vec(46, 46), Vec(46, 38), Vec(38, 46), Vec(5, 5), Vec(50, 50)}

HitUpPoints == {Vec(42, 42), Vec(50, 50)}

InitHit ==
    InitWith({c \in Configs : /\ c.style \in {"Single", "Rectangle"}
                              /\ ~c.resize_lock_aspectratio
                              /\ ~c.snap_positions}, {{}})

NextHit ==
    \/ PenDown(HitPoints, MaxHitEvents)
    \/ PenUp(HitUpPoints, MaxHitEvents)

SpecHit == InitHit /\ [][NextHit]_vars

\* every event, under every style, around the strokes of keys 1 and 2:
\* positions in the interior, on the rotation node and on a resize node of
\* the stroke of key 2, and one away from every stroke
MaxKeyEvents == 4

KeyPoints == {Vec(5, 5), Vec(10, 5), Vec(0, 0), Vec(50, 50)}

InitKeys ==
    InitWith({c \in Configs : ~c.resize_lock_aspectratio /\ ~c.snap_positions},
             InitiallySelected)

NextKeys ==
    \/ PenDown(KeyPoints, MaxKeyEvents)
    \/ PenUp(KeyPoints, MaxKeyEvents)
    \/ PenProximity(KeyPoints, MaxKeyEvents)
    \/ KeyPressed(KeyboardKeys, MaxKeyEvents)
    \/ TextInput(MaxKeyEvents)
    \/ PenCancel(MaxKeyEvents)

SpecKeys == InitKeys /\ [][NextKeys]_vars

\* the selection of strokes by a path, under every style: the corners of
\* the strokes of keys 1 and 2 and a triangle around the stroke of key 3
MaxSelectEvents == 4

SelectPoints ==
    {Vec(0, 0), Vec(10, 10), Vec(20, 20), Vec(36, 36), Vec(56, 36), Vec(36, 56)}

SelectUpPoints == {Vec(0, 0)}

InitSelect ==
    InitWith({c \in Configs : ~c.resize_lock_aspectratio /\ ~c.snap_positions}, {{}})

NextSelect ==
    \/ PenDown(SelectPoints, MaxSelectEvents)
    \/ PenUp(SelectUpPoints, MaxSelectEvents)

SpecSelect == InitSelect /\ [][NextSelect]_vars

\* a second document: one wide stroke whose lower right corner lies off the
\* snapping grid, and two strokes away from it
GestureBounds(k) ==
    CASE k = 1 -> Box(0, 0, 22, 12)
      [] k = 2 -> Box(60, 60, 70, 70)
      [] OTHER -> Box(80, 80, 90, 90)

GestureStore ==
    [strokes |-> [k \in Keys |-> Stroke(GestureBounds(k), FALSE, FALSE)],
     initial_size_selection |-> None,
     history |-> 0,
     components |-> TRUE]

InitOn(C, stores) ==
    /\ state = Idle
    /\ config \in C
    /\ store \in stores
    /\ ev = NoEvent
    /\ prev = Idle
    /\ result = Unhandled("Idle")
    /\ flags = DefaultFlags
    /\ cmds = <<>>
    /\ nevents = 0
    /\ panicked = FALSE
    /\ in_drag = FALSE
    /\ pending = NotFollowed

\* a translation of the wide stroke, picked with the Single style and held
\* near its lower right corner, with and without snapping: the pointer stays,
\* moves by the threshold, moves by more, and leaves the stroke
MaxTranslateEvents == 5
TranslatePoints == {Vec(15, 8), Vec(16, 8), Vec(18, 8), Vec(50, 50)}
TranslateUpPoints == {Vec(15, 8)}
InitTranslate ==
    InitOn({c \in Configs : c.style = "Single" /\ ~c.resize_lock_aspectratio},
           {GestureStore})
NextTranslate ==
    \/ PenDown(TranslatePoints, MaxTranslateEvents)
    \/ PenUp(TranslateUpPoints, MaxTranslateEvents)
SpecTranslate == InitTranslate /\ [][NextTranslate]_vars

\* a rotation of the wide stroke by quarter turns about its centre (11, 6):
\* the rotation node at (22, 6), positions below and to the right of the
\* centre, the centre itself, and one away from every stroke
MaxRotateEvents == 5
RotatePoints == {Vec(11, 6), Vec(22, 6), Vec(11, 16), Vec(30, 6), Vec(50, 50)}
RotateUpPoints == {Vec(11, 6)}
InitRotate ==
    InitOn({c \in Configs : /\ c.style = "Single"
                            /\ ~c.resize_lock_aspectratio
                            /\ ~c.snap_positions},
           {GestureStore})
NextRotate ==
    \/ PenDown(RotatePoints, MaxRotateEvents)
    \/ PenUp(RotateUpPoints, MaxRotateEvents)
SpecRotate == InitRotate /\ [][NextRotate]_vars

\* a resize of the wide stroke from each of its corners, with and without
\* snapping and aspect lock: the four corners of its bounds, its interior,
\* two positions beyond its lower right corner and one that drags that
\* corner past the opposite one
MaxResizeEvents == 5
ResizePoints ==
    {Vec(0, 0), Vec(22, 0), Vec(0, 12), Vec(22, 12), Vec(11, 6),
     Vec(26, 14), Vec(28, 10), Vec(-8, -18)}
ResizeUpPoints == {Vec(11, 6)}
InitResize == InitOn({c \in Configs : c.style = "Single"}, {GestureStore})
NextResize ==
    \/ PenDown(ResizePoints, MaxResizeEvents)
    \/ PenUp(ResizeUpPoints, MaxResizeEvents)
SpecResize == InitResize /\ [][NextResize]_vars

\* the render task queue: events around the stroke of key 2 under the
\* Single style, with the requests sent through tasks_tx completing one
\* at a time, in any order and at any time, or never
MaxRenderEvents == 4
RenderPoints == {Vec(5, 5), Vec(10, 5), Vec(15, 15), Vec(50, 50)}
InitRender ==
    /\ state = Idle
    /\ config \in {c \in Configs : /\ c.style = "Single"
                                   /\ ~c.resize_lock_aspectratio
                                   /\ ~c.snap_positions}
    /\ store = InitStore({})
    /\ ev = NoEvent
    /\ prev = Idle
    /\ result = Unhandled("Idle")
    /\ flags = DefaultFlags
    /\ cmds = <<>>
    /\ nevents = 0
    /\ panicked = FALSE
    /\ in_drag = FALSE
    /\ pending = {}

\* the render task completes one of the requests
RenderComplete ==
    /\ \E r \in pending : pending' = pending \ {r}
    /\ UNCHANGED <<state, store, config, ev, prev, result, flags, cmds, nevents,
                   panicked, in_drag>>

NextRender ==
    \/ PenDown(RenderPoints, MaxRenderEvents)
    \/ PenUp(RenderPoints, MaxRenderEvents)
    \/ KeyPressed({"a"}, MaxRenderEvents)
    \/ TextInput(MaxRenderEvents)
    \/ PenCancel(MaxRenderEvents)
    \/ RenderComplete
SpecRender == InitRender /\ [][NextRender]_vars

\* the Resize step at the edge of its domain, under the Single style. A
\* third document, whose first stroke has a hitbox without height (a
\* horizontal line), is picked and resized from its upper left corner: the
\* corner, a position on the stroke, one that drags the corner outwards and
\* one that drags it inwards. And a Resize gesture on the wide stroke is
\* under way while the store holds no initial_size_selection. And the
\* second document is held by a store that returns no bounds for its keys.
FlatStore == [GestureStore EXCEPT !.strokes[1].bounds = Box(0, 0, 22, 0)]

UncachedStore == [GestureStore EXCEPT !.strokes[1].selected = TRUE]

BoundlessStore == [GestureStore EXCEPT !.components = FALSE]

MaxFlatEvents == 4
FlatPoints == {Vec(0, 0), Vec(11, 0), Vec(-4, -3), Vec(4, 3)}
InitFlat ==
    /\ \/ state = Idle /\ store \in {GestureStore, FlatStore, BoundlessStore}
       \/ /\ state = ModifySelection(Resize("BottomRight", GestureBounds(1), Vec(22, 12)),
                                     <<1>>, GestureBounds(1))
          /\ store = UncachedStore
    /\ config \in {c \in Configs : c.style = "Single"}
    /\ ev = NoEvent
    /\ prev = Idle
    /\ result = Unhandled("Idle")
    /\ flags = DefaultFlags
    /\ cmds = <<>>
    /\ nevents = 0
    /\ panicked = FALSE
    /\ in_drag = InGesture(state)
    /\ pending = NotFollowed
NextFlat ==
    \/ PenDown(FlatPoints, MaxFlatEvents)
    \/ PenUp(FlatPoints, MaxFlatEvents)
SpecFlat == InitFlat /\ [][NextFlat]_vars

(***************************************************************************)
(* Properties                                                              *)
(***************************************************************************)
\* the number of times a command is issued
Count(commands, op) == Cardinality({i \in DOMAIN commands : commands[i].op = op})
Issued(commands, op, keys) == \E i \in DOMAIN commands : commands[i] = Cmd(op, keys)
SelectedKeys(st) == {k \in Keys : st.strokes[k].selected}

\* C1: in ModifySelection, modify_state goes from Up/Hover to Translate,
\* Rotate or Resize only in a pointer-down and back only in a pointer-up,
\* and no proximity, key or text event changes it during a gesture.
C1_GestureChangesOnlyOnPenDownAndUp ==
    (prev.tag = "ModifySelection" /\ state.tag = "ModifySelection") =>
        /\ (InUpOrHover(prev) /\ InGesture(state)) => ev.kind = "down"
        /\ (InGesture(prev) /\ InUpOrHover(state)) => ev.kind = "up"
        /\ (InGesture(prev) /\ ev.kind \in {"proximity", "key", "text"})
               => state.modify_state = prev.modify_state

\* C2: during a drag (from the pointer-down that enters a gesture up to the
\* next pointer-up) no event but that pointer-up calls store.record, and
\* that pointer-up calls it exactly once.
C2_OneRecordPerDrag ==
    [][in_drag =>
          /\ Count(cmds', "record") = (IF ev'.kind = "up" THEN 1 ELSE 0)
          /\ store'.history = store.history + (IF ev'.kind = "up" THEN 1 ELSE 0)]_vars

\* C3: a cancel event leaves the selector in Idle: unhandled in Idle,
\* handled, Stop and Finished in Selecting and in ModifySelection (where the
\* selection is deselected, whatever the modify_state); it records nothing.
C3_CancelReturnsToIdle ==
    [][ev'.kind = "cancel" =>
          /\ state' = Idle
          /\ store'.history = store.history
          /\ Count(cmds', "record") = 0
          /\ state.tag = "Idle" => result' = Unhandled("Idle")
          /\ state.tag = "Selecting" =>
                 result' = Handled("Finished") /\ store' = store
          /\ state.tag = "ModifySelection" =>
                 /\ result' = Handled("Finished")
                 /\ \A k \in Range(state.selection) : ~store'.strokes[k].selected]_vars

\* C3, the case: a cancel in the middle of a gesture
C3_CancelMidGesture ==
    ev.kind = "cancel" /\ InGesture(prev) /\ state = Idle

\* C4: a pointer-down in Idle deselects every selected stroke, flags
\* store_modified exactly when there was one, begins a path with the point
\* of the event and is handled, Stop, InProgress.
C4_DownInIdle ==
    [][(ev'.kind = "down" /\ state.tag = "Idle") =>
          /\ SelectedKeys(store') = {}
          /\ flags'.store_modified = (SelectedKeys(store) # {})
          /\ state' = Selecting(<<ev'.pos>>)
          /\ result' = Handled("InProgress")]_vars

\* C4, the case: the pointer-down deselected a stroke
C4_DownInIdleDeselected ==
    /\ ev.kind = "down" /\ prev.tag = "Idle"
    /\ Count(cmds, "set_selected_keys_false") = 1
    /\ flags.store_modified

\* C5: a pointer-down in Selecting stays in Selecting, nudges the camera,
\* expands the document, asks for one re-render of the viewport, is
\* handled, Stop, InProgress, and changes the selection of no stroke.
C5_DownInSelecting ==
    [][(ev'.kind = "down" /\ state.tag = "Selecting") =>
          /\ state'.tag = "Selecting"
          /\ Count(cmds', "nudge_w_pos") = 1
          /\ Count(cmds', "expand_autoexpand") = 1
          /\ Count(cmds', "regenerate_rendering_in_viewport_threaded") = 1
          /\ result' = Handled("InProgress")
          /\ store' = store]_vars

\* C5, the case: a second point of the path
C5_PathExtended ==
    ev.kind = "down" /\ prev.tag = "Selecting" /\ state.tag = "Selecting"
    /\ Len(state.path) = 2

\* C6: a pointer-up in Selecting is handled with Stop; when the path selects
\* strokes they are marked selected, store_modified and
\* deselect_color_setters are set, the selector enters ModifySelection in
\* Up with them and their bounds, and progress is InProgress; when it
\* selects none, no stroke is selected, ModifySelection is not entered and
\* progress is Finished.
C6_UpInSelecting ==
    [][(ev'.kind = "up" /\ state.tag = "Selecting") =>
          LET new_selection == NewSelection(config.style, state.path, store)
          IN  /\ result'.handled /\ result'.propagate = "Stop"
              /\ new_selection # <<>> =>
                    /\ SelectedKeys(store') = SelectedKeys(store) \cup Range(new_selection)
                    /\ flags'.store_modified /\ flags'.deselect_color_setters
                    /\ state'.tag = "ModifySelection"
                    /\ state'.modify_state = Up
                    /\ state'.selection = new_selection
                    /\ Some(state'.selection_bounds)
                           = bounds_for_strokes(store', new_selection)
                    /\ result'.progress = "InProgress"
              /\ new_selection = <<>> =>
                    /\ SelectedKeys(store') = SelectedKeys(store)
                    /\ state'.tag # "ModifySelection"
                    /\ result'.progress = "Finished"]_vars

\* C6, the case: the path selected strokes
C6_SelectionMade ==
    /\ ev.kind = "up" /\ prev.tag = "Selecting"
    /\ state.tag = "ModifySelection" /\ state.selection # <<>>
    /\ result.progress = "InProgress"

\* the scenario of C7: Rectangle style, a pointer-down at (5, 5) in Idle,
\* then a pointer-up at (15, 15); stroke 1 has the hitbox (0, 0)-(20, 20)
C7_FirstDown ==
    config.style = "Rectangle" /\ nevents = 1 /\ ev.kind = "down" /\ ev.pos = Vec(5, 5)
C7_ThenUp ==
    /\ config.style = "Rectangle" /\ nevents = 2
    /\ ev.kind = "up" /\ ev.pos = Vec(15, 15)
    /\ prev = Selecting(<<Vec(5, 5)>>)

\* C7 as claimed: the pointer-up selects exactly the stroke, enters
\* ModifySelection and returns progress Finished.
C7_ScenarioSelectsStroke ==
    /\ C7_FirstDown => state = Selecting(<<Vec(5, 5)>>) /\ result.progress = "InProgress"
    /\ C7_ThenUp =>
          /\ SelectedKeys(store) = {1}
          /\ state.tag = "ModifySelection"
          /\ result.progress = "Finished"

\* C7, amended: the pointer-down gives Selecting with path [(5, 5)] and
\* InProgress; the pointer-up at (15, 15) selects no stroke, leaves the
\* selector in Selecting and returns progress Finished.
C7_ScenarioSelectsNothing ==
    /\ C7_FirstDown => state = Selecting(<<Vec(5, 5)>>) /\ result.progress = "InProgress"
    /\ C7_ThenUp =>
          /\ SelectedKeys(store) = {}
          /\ state = Selecting(<<Vec(5, 5)>>)
          /\ result = Handled("Finished")

\* C7, the case: the scenario has run
C7_ScenarioRan == C7_ThenUp /\ InitialBounds(1) = Box(0, 0, 20, 20)

\* C8: a pointer-down in ModifySelection with modify_state Up or Hover
\* takes exactly one branch, the earliest in the order add-to-selection,
\* rotation node, resize node TopLeft, TopRight, BottomLeft, BottomRight,
\* interior of selection_bounds (Translate), otherwise deselect-all.
C8_BranchPriority ==
    [][(ev'.kind = "down" /\ InUpOrHover(state)) =>
          LET pos == ev'.pos
              bounds == state.selection_bounds
              conditions ==
                  << AddToSelection(config, ev'.modifier_keys, store, pos),
                     InRotateNode(bounds, pos),
                     InResizeNode("TopLeft", bounds, pos),
                     InResizeNode("TopRight", bounds, pos),
                     InResizeNode("BottomLeft", bounds, pos),
                     InResizeNode("BottomRight", bounds, pos),
                     ContainsLocalPoint(bounds, pos),
                     TRUE >>
              first == CHOOSE i \in 1..8 :
                           conditions[i] /\ \A j \in 1..(i - 1) : ~conditions[j]
              corner == ResizeCorners[first - 2]
          IN  CASE first = 1 ->
                       /\ state'.tag = "ModifySelection"
                       /\ state'.modify_state = state.modify_state
                       /\ Len(state'.selection) = Len(state.selection) + 1
                       /\ Count(cmds', "set_selected_true") = 1
                [] first = 2 ->
                       /\ InGesture(state') /\ state'.modify_state.tag = "Rotate"
                       /\ store' = store /\ state'.selection = state.selection
                [] first \in 3..6 ->
                       /\ InGesture(state') /\ state'.modify_state.tag = "Resize"
                       /\ state'.modify_state.from_corner = corner
                       /\ store' = store /\ state'.selection = state.selection
                [] first = 7 ->
                       /\ InGesture(state') /\ state'.modify_state.tag = "Translate"
                       /\ store' = store /\ state'.selection = state.selection
                [] OTHER ->
                       /\ state' = Idle
                       /\ Count(cmds', "set_selected_keys_false") = 1]_vars

\* C8, the case: the point lies in the rotation node, in two resize nodes
\* and in the interior of the bounds, and the rotation is the branch taken
C8_RotateBeforeResizeAndTranslate ==
    /\ ev.kind = "down" /\ InUpOrHover(prev)
    /\ InRotateNode(prev.selection_bounds, ev.pos)
    /\ InResizeNode("TopRight", prev.selection_bounds, ev.pos)
    /\ InResizeNode("BottomRight", prev.selection_bounds, ev.pos)
    /\ ContainsLocalPoint(prev.selection_bounds, ev.pos)
    /\ InGesture(state) /\ state.modify_state.tag = "Rotate"

\* what C9 says of the outcome: ghost widths committed, every key of the
\* selection unselected, Idle, handled, Stop, Finished
C9_Deselected ==
    /\ Issued(cmds', "copy_ghost_stroke_width", state.selection)
    /\ \A k \in Range(state.selection) : ~store'.strokes[k].selected
    /\ state' = Idle
    /\ result' = Handled("Finished")

\* C9 as claimed: in ModifySelection with modify_state Up or Hover, a
\* pointer-down outside selection_bounds always deselects.
C9_OutsideAlwaysDeselects ==
    [][(/\ ev'.kind = "down" /\ InUpOrHover(state)
        /\ ~ContainsLocalPoint(state.selection_bounds, ev'.pos))
       => C9_Deselected]_vars

\* C9, amended: in ModifySelection with modify_state Up or Hover, a
\* pointer-down outside selection_bounds that does not add a stroke to the
\* selection and lies in neither the rotation node nor a resize node
\* deselects.
C9_OutsideBoundsAndNodesDeselects ==
    [][(/\ ev'.kind = "down" /\ InUpOrHover(state)
        /\ ~ContainsLocalPoint(state.selection_bounds, ev'.pos)
        /\ ~AddToSelection(config, ev'.modifier_keys, store, ev'.pos)
        /\ ~InRotateNode(state.selection_bounds, ev'.pos)
        /\ \A i \in DOMAIN ResizeCorners :
               ~InResizeNode(ResizeCorners[i], state.selection_bounds, ev'.pos))
       => C9_Deselected]_vars

\* C9, the case: the click at (50, 50) away from the selection
C9_ClickedAway ==
    /\ ev.kind = "down" /\ ev.pos = Vec(50, 50) /\ InUpOrHover(prev)
    /\ ~ContainsLocalPoint(prev.selection_bounds, ev.pos)
    /\ state = Idle /\ Count(cmds, "copy_ghost_stroke_width") = 1

\* C10: a pointer-up in ModifySelection commits a gesture (geometry update
\* of the selection, resize_autoexpand, one re-render request, the store's
\* bounds of the selection, one record, store_modified) and does nothing
\* of it in Up or Hover; afterwards modify_state is Hover(position) when the
\* position lies in the bounds of the selector and Up otherwise, and the
\* result is handled, Stop, InProgress.
C10_UpInModifySelection ==
    [][(ev'.kind = "up" /\ state.tag = "ModifySelection") =>
          LET selector_bounds == bounds_on_doc(state)
              store_bounds == bounds_for_strokes(store, state.selection)
          IN  /\ InGesture(state) =>
                    /\ Issued(cmds', "update_geometry_for_strokes", state.selection)
                    /\ Count(cmds', "update_geometry_for_strokes") = 1
                    /\ Count(cmds', "resize_autoexpand") = 1
                    /\ Count(cmds', "regenerate_rendering_in_viewport_threaded") = 1
                    /\ Count(cmds', "record") = 1
                    /\ store'.history = store.history + 1
                    /\ store'.strokes = store.strokes
                    /\ IsSome(store_bounds) =>
                           state'.selection_bounds = Unwrap(store_bounds)
                    /\ flags'.store_modified
              /\ InUpOrHover(state) =>
                    /\ cmds' = <<>>
                    /\ flags' = DefaultFlags
                    /\ store' = store
                    /\ state'.selection_bounds = state.selection_bounds
              /\ state'.tag = "ModifySelection"
              /\ state'.selection = state.selection
              /\ state'.modify_state =
                     (IF /\ IsSome(selector_bounds)
                         /\ ContainsLocalPoint(Unwrap(selector_bounds), ev'.pos)
                      THEN Hover(ev'.pos) ELSE Up)
              /\ result' = Handled("InProgress")]_vars

\* C10, the case: the pointer-up that ends a translation which moved the
\* selection
C10_TranslationCommitted ==
    /\ ev.kind = "up" /\ InGesture(prev) /\ prev.modify_state.tag = "Translate"
    /\ prev.modify_state.current_pos # prev.modify_state.start_pos
    /\ \E k \in Keys : store.strokes[k].bounds # InitialBounds(k)
    /\ Count(cmds, "record") = 1

\* C11: a proximity event is unhandled in Idle; in Selecting it is handled,
\* Stop, InProgress and leaves the path unchanged; in ModifySelection it
\* sets modify_state to Hover(position) exactly when the position is inside
\* the bounds of the selector and to Up otherwise; in every state the flags
\* are default and no command is issued.
C11_Proximity ==
    [][ev'.kind = "proximity" =>
          LET selector_bounds == bounds_on_doc(state)
              inside == /\ IsSome(selector_bounds)
                        /\ ContainsLocalPoint(Unwrap(selector_bounds), ev'.pos)
          IN  /\ flags' = DefaultFlags
              /\ cmds' = <<>>
              /\ store' = store
              /\ state.tag = "Idle" => state' = state /\ result' = Unhandled("Idle")
              /\ state.tag = "Selecting" =>
                     state' = state /\ result' = Handled("InProgress")
              /\ state.tag = "ModifySelection" =>
                     /\ state' = ModifySelection(
                                     IF inside THEN Hover(ev'.pos) ELSE Up,
                                     state.selection, state.selection_bounds)
                     /\ result' = Handled("InProgress")]_vars

\* C11, the case: a proximity event inside the bounds while a gesture runs
C11_HoverOverSelection ==
    /\ ev.kind = "proximity" /\ InGesture(prev)
    /\ state.tag = "ModifySelection" /\ state.modify_state = Hover(ev.pos)

\* C12: the key 'a', in every state and with any modifier keys, selects
\* every stroke of the document and is handled with Stop.
C12_SelectAll ==
    [][(ev'.kind = "key" /\ ev'.key = "a") =>
          /\ result'.handled /\ result'.propagate = "Stop"
          /\ \A k \in Keys : ~store'.strokes[k].trashed => store'.strokes[k].selected]_vars

\* C12, the case: 'a' without Ctrl while a path is drawn selects strokes
\* that were not selected
C12_SelectAllWhileSelecting ==
    /\ ev.kind = "key" /\ ev.key = "a" /\ ev.modifier_keys = {}
    /\ prev.tag = "Selecting"
    /\ Issued(cmds, "set_selected_keys_true", <<1, 2, 3>>)
    /\ SelectedKeys(store) = Keys

\* C13: in ModifySelection the key 'd' is handled, Stop, Finished; with Ctrl
\* it duplicates the selection, updates and renders the duplicates, records
\* once and flags resize and store_modified; without Ctrl no command is
\* issued and the flags are default; the selector state is unchanged.
C13_Duplicate ==
    [][(ev'.kind = "key" /\ ev'.key = "d" /\ state.tag = "ModifySelection") =>
          /\ result' = Handled("Finished")
          /\ state' = state
          /\ "KeyboardCtrl" \in ev'.modifier_keys =>
                /\ Count(cmds', "duplicate_selection") = 1
                /\ Count(cmds', "update_geometry_for_strokes") = 1
                /\ Count(cmds', "regenerate_rendering_for_strokes_threaded") = 1
                /\ Count(cmds', "record") = 1
                /\ store'.history = store.history + 1
                /\ flags' = [DefaultFlags EXCEPT !.resize = TRUE, !.store_modified = TRUE]
          /\ "KeyboardCtrl" \notin ev'.modifier_keys =>
                /\ cmds' = <<>>
                /\ store' = store
                /\ flags' = DefaultFlags]_vars

\* C13, the case: 'd' without Ctrl is consumed and does nothing
C13_DuplicateWithoutCtrl ==
    /\ ev.kind = "key" /\ ev.key = "d" /\ ev.modifier_keys = {}
    /\ prev.tag = "ModifySelection"
    /\ result = Handled("Finished") /\ cmds = <<>>

\* the strokes marked trashed
TrashedKeys(st) == {k \in Keys : st.strokes[k].trashed}

\* C14: in ModifySelection, Escape returns to Idle and trashes no stroke;
\* Delete and BackSpace return to Idle having trashed exactly the strokes
\* of the selection; all are handled, Stop, Finished.
C14_EscapeAndDelete ==
    [][(ev'.kind = "key" /\ state.tag = "ModifySelection") =>
          /\ ev'.key = "Escape" =>
                /\ state' = Idle
                /\ TrashedKeys(store') = TrashedKeys(store)
                /\ result' = Handled("Finished")
          /\ ev'.key \in {"Delete", "BackSpace"} =>
                /\ state' = Idle
                /\ TrashedKeys(store') = TrashedKeys(store) \cup Range(state.selection)
                /\ result' = Handled("Finished")]_vars

\* C14, the case: Delete with one of the strokes selected trashes it alone
C14_DeletedOneStroke ==
    /\ ev.kind = "key" /\ ev.key = "Delete"
    /\ prev.tag = "ModifySelection" /\ Len(prev.selection) = 1
    /\ TrashedKeys(store) = Range(prev.selection)
    /\ state = Idle

\* the shortcuts of a state
Shortcuts(s) ==
    IF s.tag = "ModifySelection" THEN {"a", "d", "Delete", "BackSpace", "Escape"}
    ELSE {"a"}

\* C15: a key that is no shortcut of the current state is unhandled with
\* Proceed and leaves the selector state, the store and the flags as they
\* were.
C15_OtherKeysUnhandled ==
    [][(ev'.kind = "key" /\ ev'.key \notin Shortcuts(state)) =>
          /\ ~result'.handled /\ result'.propagate = "Proceed"
          /\ state' = state
          /\ store' = store
          /\ flags' = DefaultFlags
          /\ cmds' = <<>>]_vars

\* C15, the case: Escape while a path is drawn
C15_EscapeWhileSelecting ==
    /\ ev.kind = "key" /\ ev.key = "Escape"
    /\ prev.tag = "Selecting" /\ state = prev /\ ~result.handled

\* C16: a text-input event is never handled: Proceed, default flags, the
\* selector state and the store unchanged.
C16_TextNeverHandled ==
    [][ev'.kind = "text" =>
          /\ ~result'.handled /\ result'.propagate = "Proceed"
          /\ flags' = DefaultFlags
          /\ state' = state
          /\ store' = store
          /\ cmds' = <<>>]_vars

\* C16, the case: text while a path is drawn
C16_TextWhileSelecting ==
    ev.kind = "text" /\ prev.tag = "Selecting" /\ state = prev /\ ~result.handled

\* C17: in Idle a pointer-up, a proximity event and a cancel event are
\* unhandled (Proceed, progress Idle) with default flags, stay in Idle and
\* issue no command.
C17_IdleIgnores ==
    [][(state.tag = "Idle" /\ ev'.kind \in {"up", "proximity", "cancel"}) =>
          /\ result' = Unhandled("Idle")
          /\ flags' = DefaultFlags
          /\ state' = Idle
          /\ store' = store
          /\ cmds' = <<>>]_vars

\* C17, the case: a pointer-up in Idle over a store with a selected stroke
C17_UpInIdle ==
    /\ ev.kind = "up" /\ prev.tag = "Idle" /\ state = Idle
    /\ SelectedKeys(store) # {}
    /\ result = Unhandled("Idle")

\* the values an EventResult<PenProgress> takes
EventResults ==
    [handled : BOOLEAN, propagate : {"Stop", "Proceed"},
     progress : {"Idle", "InProgress", "Finished"}]

\* the values the WidgetFlags of the model take
AllWidgetFlags ==
    [store_modified : BOOLEAN, resize : BOOLEAN, deselect_color_setters : BOOLEAN]

\* s is one of Idle, Selecting and ModifySelection with one of the five
\* modify states
DefinedState(s) ==
    /\ s.tag \in {"Idle", "Selecting", "ModifySelection"}
    /\ s.tag = "ModifySelection" =>
          s.modify_state.tag \in {"Up", "Hover", "Translate", "Rotate", "Resize"}

\* C18: whatever the selector state and the event, the handler returns a
\* result (handled, propagate, progress) and widget flags and leaves a
\* defined state; it aborts only on a pointer-down in Resize while
\* initial_size_selection is None.
C18_Total ==
    /\ result \in EventResults
    /\ flags \in AllWidgetFlags
    /\ DefinedState(state) /\ DefinedState(prev)
    /\ panicked =>
          /\ ev.kind = "down"
          /\ prev.tag = "ModifySelection" /\ prev.modify_state.tag = "Resize"
          /\ ~IsSome(store.initial_size_selection)

\* C18, the case: a pointer-down in Resize with initial_size_selection
\* present resized the selection and did not abort
C18_ResizeStep ==
    /\ ev.kind = "down"
    /\ prev.tag = "ModifySelection" /\ prev.modify_state.tag = "Resize"
    /\ IsSome(store.initial_size_selection)
    /\ ~panicked
    /\ state.tag = "ModifySelection"
    /\ state.selection_bounds # prev.selection_bounds
    /\ result = Handled("InProgress")

\* C19: a pointer-up in Selecting under the Polygon or the IntersectingPath
\* style with a path of fewer than 3 points selects no stroke, does not
\* enter ModifySelection and reports progress Finished.
C19_ShortPathSelectsNothing ==
    [][(/\ state.tag = "Selecting" /\ ev'.kind = "up"
        /\ config.style \in {"Polygon", "IntersectingPath"}
        /\ Len(state.path) < 3) =>
          /\ SelectedKeys(store') \subseteq SelectedKeys(store)
          /\ state'.tag # "ModifySelection"
          /\ result'.progress = "Finished"]_vars

\* C19, the case: a path of two points that crosses hitboxes was finished
\* under the IntersectingPath style and nothing is selected
C19_TwoPointPathAcrossStrokes ==
    /\ ev.kind = "up" /\ prev.tag = "Selecting"
    /\ config.style = "IntersectingPath"
    /\ Len(prev.path) = 2
    /\ strokes_hitboxes_intersect_path(store, prev.path, Viewport) # <<>>
    /\ SelectedKeys(store) = {}
    /\ state.tag = "Selecting"
    /\ result = Handled("Finished")

\* the box b lies between the points p and q on both axes, whichever of the
\* two is the lower corner on an axis
InsideSpan(p, q, b) ==
    \A i \in 1..2 :
        \/ RLe(p[i], b.mins[i]) /\ RLe(b.maxs[i], q[i])
        \/ RLe(q[i], b.mins[i]) /\ RLe(b.maxs[i], p[i])

\* the strokes whose hitbox lies in the box spanned by the first and the
\* last point of the path
KeysInsideSpan(st, path) ==
    {k \in Keys : InsideSpan(path[1], path[Len(path)], st.strokes[k].bounds)}

\* C20: a pointer-up in Selecting under the Rectangle style selects exactly
\* the strokes whose hitbox is contained in the axis-aligned box spanned by
\* the first and the last point of the path, in either order of the two
\* corners; for the path [(0,0),(10,10)] these are the strokes with hitbox
\* inside (0,0)-(10,10).
C20_RectangleSelectsContained ==
    [][(/\ state.tag = "Selecting" /\ ev'.kind = "up"
        /\ config.style = "Rectangle"
        /\ state.path # <<>>) =>
          /\ SelectedKeys(store') = KeysInsideSpan(store, state.path)
          /\ KeysInsideSpan(store, state.path) # {} =>
                /\ state'.tag = "ModifySelection"
                /\ Range(state'.selection) = KeysInsideSpan(store, state.path)]_vars

\* C20, the case: the rectangle was dragged from (10,10) back to (0,0) and
\* selected stroke 2, whose hitbox is (0,0)-(10,10), and not stroke 1, whose
\* hitbox (0,0)-(20,20) only overlaps the rectangle
C20_ReversedCorners ==
    /\ ev.kind = "up" /\ prev.tag = "Selecting"
    /\ config.style = "Rectangle"
    /\ prev.path = <<Vec(10, 10), Vec(0, 0)>>
    /\ SelectedKeys(store) = {2}
    /\ state.tag = "ModifySelection" /\ state.selection = <<2>>

\* the squared magnitude of the offset is at most (threshold / total_zoom)^2
WithinTranslateThreshold(offset) ==
    LET t == RDiv(R(TRANSLATE_OFFSET_THRESHOLD), R(total_zoom))
    IN  RLe(VMagnitudeSquared(offset), RMul(t, t))

\* snap_position(corner + (pos - current_pos)) - corner, corner being the
\* tracked snap corner of the selection bounds of s
SnappedTranslateOffset(s, pos) ==
    LET corner == CornerPos(s.selection_bounds, s.modify_state.snap_corner)
    IN  VSub(snap_position(config.snap_positions,
                           VAdd(corner, VSub(pos, s.modify_state.current_pos))),
             corner)

InTranslate(s) == s.tag = "ModifySelection" /\ s.modify_state.tag = "Translate"

\* C21: a pointer-down in Translate whose snapped offset has magnitude at
\* most TRANSLATE_OFFSET_THRESHOLD / total_zoom translates no stroke and no
\* cached image and leaves selection_bounds, current_pos, start_pos and
\* snap_corner as they were.
C21_SmallOffsetIsNoOp ==
    [][(/\ InTranslate(state) /\ ev'.kind = "down"
        /\ WithinTranslateThreshold(SnappedTranslateOffset(state, ev'.pos))) =>
          /\ state' = state
          /\ store' = store
          /\ Count(cmds', "translate_strokes") = 0
          /\ Count(cmds', "translate_strokes_images") = 0]_vars

\* C21, the case: the pointer moved by exactly the threshold and nothing
\* moved with it
C21_PointerMovedByThreshold ==
    /\ ev.kind = "down" /\ InTranslate(prev) /\ ~config.snap_positions
    /\ VSub(ev.pos, prev.modify_state.current_pos) = Vec(1, 0)
    /\ state = prev
    /\ Count(cmds, "translate_strokes") = 0

\* C21, the case under snapping: the pointer is away from current_pos by
\* more than the threshold, the snapped offset is zero and nothing moved
C21_SnappedToNothing ==
    /\ ev.kind = "down" /\ InTranslate(prev) /\ config.snap_positions
    /\ ~WithinTranslateThreshold(VSub(ev.pos, prev.modify_state.current_pos))
    /\ state = prev

InRotate(s) == s.tag = "ModifySelection" /\ s.modify_state.tag = "Rotate"

\* the angle of the vector from the rotation centre of s to pos
AngleTo(s, pos) == angle_ahead(VSub(pos, s.modify_state.rotation_center))

\* the strokes of st with those of keys turned by the angle about the centre
StrokesRotated(st, keys, angle, center) ==
    [k \in Keys |->
        IF k \in Range(keys)
        THEN [st.strokes[k] EXCEPT
                 !.bounds = RotateBounds(@, center, Quarters(angle))]
        ELSE st.strokes[k]]

\* C22: a pointer-down in Rotate takes the angle of the vector from
\* rotation_center to the pointer; if it differs from current_rotation_angle
\* by at most ROTATE_ANGLE_THRESHOLD nothing changes; otherwise strokes and
\* cached images are rotated by that difference about rotation_center,
\* selection_bounds is the bounds of the selection in the store and
\* current_rotation_angle is the new angle.
C22_RotateStep ==
    [][(InRotate(state) /\ ev'.kind = "down") =>
          LET ms == state.modify_state
              new_angle == AngleTo(state, ev'.pos)
              delta == RSub(new_angle, ms.current_rotation_angle)
          IN  IF RLe(RAbs(delta), ROTATE_ANGLE_THRESHOLD)
              THEN /\ state' = state
                   /\ store' = store
                   /\ Count(cmds', "rotate_strokes") = 0
                   /\ Count(cmds', "rotate_strokes_images") = 0
              ELSE /\ store'.strokes =
                          StrokesRotated(store, state.selection, delta, ms.rotation_center)
                   /\ Issued(cmds', "rotate_strokes", state.selection)
                   /\ Issued(cmds', "rotate_strokes_images", state.selection)
                   /\ state'.tag = "ModifySelection"
                   /\ state'.selection = state.selection
                   /\ Some(state'.selection_bounds) =
                          bounds_for_strokes(store', state.selection)
                   /\ state'.modify_state =
                          [ms EXCEPT !.current_rotation_angle = new_angle]]_vars

\* C22, the case: the wide stroke was turned by a quarter about its centre
\* and stands upright
C22_QuarterTurn ==
    /\ ev.kind = "down" /\ InRotate(prev) /\ InRotate(state)
    /\ prev.modify_state.current_rotation_angle = R(0)
    /\ state.modify_state.current_rotation_angle = R(90)
    /\ prev.selection_bounds = Box(0, 0, 22, 12)
    /\ state.selection_bounds = Box(5, -5, 17, 17)
    /\ store.strokes[1].bounds = Box(5, -5, 17, 17)

\* C22, the case of the threshold: the pointer moved along the ray from the
\* centre and nothing turned
C22_SameAngle ==
    /\ ev.kind = "down" /\ InRotate(prev)
    /\ ev.pos = Vec(30, 6)
    /\ AngleTo(prev, ev.pos) = prev.modify_state.current_rotation_angle
    /\ state = prev

InResize(s) == s.tag = "ModifySelection" /\ s.modify_state.tag = "Resize"

\* equality of two numbers, of two vectors and of two boxes by value
REq(a, b) == ~IsNaN(a) /\ ~IsNaN(b) /\ ~RLt(a, b) /\ ~RLt(b, a)
VEq(u, v) == REq(u[1], v[1]) /\ REq(u[2], v[2])
AabbEq(a, b) == VEq(a.mins, b.mins) /\ VEq(a.maxs, b.maxs)

\* C23 as stated: within a Resize gesture, from whichever corner and after
\* whatever offset, a pointer-down back at start_pos returns selection_bounds
\* to start_bounds.
C23_ResizeBackRestores ==
    [][(/\ InResize(state) /\ ev'.kind = "down"
        /\ ev'.pos = state.modify_state.start_pos) =>
          /\ state'.tag = "ModifySelection"
          /\ AabbEq(state'.selection_bounds, state.modify_state.start_bounds)]_vars

\* C23, amended: it does so when the offset is not snapped, that is when
\* the document does not snap or the aspect ratio is locked.
C23_ResizeBackRestoresUnsnapped ==
    [][(/\ InResize(state) /\ ev'.kind = "down"
        /\ ev'.pos = state.modify_state.start_pos
        /\ (~config.snap_positions
            \/ config.resize_lock_aspectratio
            \/ "KeyboardCtrl" \in ev'.modifier_keys)) =>
          /\ state'.tag = "ModifySelection"
          /\ AabbEq(state'.selection_bounds, state.modify_state.start_bounds)]_vars

\* C23, the case: the top left corner was dragged away and back, and the
\* bounds are those of the start of the gesture again
C23_DraggedAwayAndBack ==
    /\ ev.kind = "down" /\ InResize(prev) /\ InResize(state)
    /\ prev.modify_state.from_corner = "TopLeft"
    /\ ev.pos = prev.modify_state.start_pos
    /\ ~config.snap_positions
    /\ ~AabbEq(prev.selection_bounds, prev.modify_state.start_bounds)
    /\ AabbEq(state.selection_bounds, state.modify_state.start_bounds)

\* width / height of the box a equals width / height of the box b
SameAspectRatio(a, b) ==
    REq(RMul(Extents(a)[1], Extents(b)[2]), RMul(Extents(a)[2], Extents(b)[1]))

\* C24: with the aspect ratio locked (resize_lock_aspectratio set or Ctrl
\* held) a Resize step leaves selection_bounds with the width / height ratio
\* of start_bounds, whatever the offset of the pointer.
C24_AspectLockKeepsRatio ==
    [][(/\ InResize(state) /\ ev'.kind = "down"
        /\ (config.resize_lock_aspectratio \/ "KeyboardCtrl" \in ev'.modifier_keys)) =>
          /\ state'.tag = "ModifySelection"
          /\ SameAspectRatio(state'.selection_bounds, state.modify_state.start_bounds)]_vars

\* the handler changed the geometry of strokes
GeometryMutated(commands) ==
    \/ Count(commands, "translate_strokes") > 0
    \/ Count(commands, "rotate_strokes") > 0
    \/ Count(commands, "scale_strokes_with_pivot") > 0

RenderRequests(commands) == Count(commands, "regenerate_rendering_in_viewport_threaded")

\* C25 as stated: a pointer-down that translates, rotates or scales strokes
\* requests regenerate_rendering_in_viewport_threaded in the same event.
C25_MutationRequestsRender ==
    [][(ev'.kind = "down" /\ GeometryMutated(cmds')) => RenderRequests(cmds') >= 1]_vars

\* C25, amended: a pointer-down that translates or scales strokes requests
\* the rendering once in the same event; one that rotates strokes requests
\* none, and the pointer-up that ends the rotation requests it.
C25_TranslateAndResizeRequestRender ==
    [][/\ (/\ ev'.kind = "down"
           /\ (\/ Count(cmds', "translate_strokes") > 0
               \/ Count(cmds', "scale_strokes_with_pivot") > 0))
          => RenderRequests(cmds') = 1
       /\ (ev'.kind = "down" /\ Count(cmds', "rotate_strokes") > 0)
          => RenderRequests(cmds') = 0
       /\ (ev'.kind = "up" /\ InRotate(state))
          => RenderRequests(cmds') = 1]_vars

\* C25, the case: strokes were rotated and no rendering was requested
C25_RotatedWithoutRender ==
    /\ ev.kind = "down" /\ InRotate(prev)
    /\ Count(cmds, "rotate_strokes") = 1
    /\ Count(cmds, "rotate_strokes_images") = 1
    /\ state.modify_state.current_rotation_angle
           # prev.modify_state.current_rotation_angle
    /\ RenderRequests(cmds) = 0

\* what the handler of the event e returns in the current state
HandlerOutcome(e) ==
    CASE e.kind = "down" ->
            handle_pen_event_down(state, store, config, e.pos, e.modifier_keys)
      [] e.kind = "up" -> handle_pen_event_up(state, store, config, e.pos)
      [] e.kind = "proximity" -> handle_pen_event_proximity(state, store, e.pos)
      [] e.kind = "key" ->
            handle_pen_event_keypressed(state, store, e.key, e.modifier_keys)
      [] e.kind = "text" -> handle_pen_event_text(state, store)
      [] OTHER -> handle_pen_event_cancel(state, store)

AddsKey(st, e) ==
    LET hit == stroke_hitboxes_contain_coord(st, Viewport, e.pos)
    IN  /\ (config.style = "Single" \/ "KeyboardShift" \in e.modifier_keys)
        /\ hit # <<>>
        /\ ~st.strokes[hit[Len(hit)]].selected

TopmostUnder(st, pos) ==
    LET hit == stroke_hitboxes_contain_coord(st, Viewport, pos) IN hit[Len(hit)]

\* C27: a pointer-down in Up or Hover on an unselected topmost stroke, with
\* the Single style or Shift held, first copies the ghost stroke widths of
\* the selection as it was, then marks the stroke selected and appends it:
\* the selection grows by that one key, selection_bounds is the bounds of
\* the enlarged selection, modify_state stays and progress is InProgress.
\* On a stroke already selected, or with neither the Single style nor Shift,
\* no key is added.
C27_AddToSelection ==
    [][(InUpOrHover(state) /\ ev'.kind = "down") =>
          IF AddsKey(store, ev')
          THEN LET key == TopmostUnder(store, ev'.pos)
               IN  /\ cmds' = <<Cmd("copy_ghost_stroke_width", state.selection),
                                Cmd("set_selected_true", <<key>>)>>
                   /\ state'.tag = "ModifySelection"
                   /\ state'.selection = Append(state.selection, key)
                   /\ SelectedKeys(store') = SelectedKeys(store) \cup {key}
                   /\ Some(state'.selection_bounds) =
                          bounds_for_strokes(store', state'.selection)
                   /\ state'.modify_state = state.modify_state
                   /\ result' = Handled("InProgress")
          ELSE /\ SelectedKeys(store') \subseteq SelectedKeys(store)
               /\ state'.tag = "ModifySelection" => state'.selection = state.selection]_vars

\* C27, the case: under the Rectangle style a Shift-click on the stroke of
\* key 2 added it to the selection of the stroke of key 3
C27_ShiftClickAdded ==
    /\ ev.kind = "down" /\ InUpOrHover(prev)
    /\ config.style = "Rectangle" /\ "KeyboardShift" \in ev.modifier_keys
    /\ prev.selection = <<3>>
    /\ state.tag = "ModifySelection" /\ state.selection = <<3, 2>>
    /\ state.selection_bounds = Box(0, 0, 44, 44)
    /\ state.modify_state = prev.modify_state
    /\ SelectedKeys(store) = {2, 3}

\* C28: in Translate the candidate offset is snap_position(corner + (pointer
\* - current_pos)) - corner, corner being the tracked snap corner of
\* selection_bounds; when it is applied, strokes, cached images and
\* selection_bounds move by that offset, the tracked corner lands on the
\* snapped position, current_pos advances by the offset, and the camera
\* nudge, the auto-expand and the render request follow.
C28_TranslateBySnappedOffset ==
    [][(/\ InTranslate(state) /\ ev'.kind = "down"
        /\ ~WithinTranslateThreshold(SnappedTranslateOffset(state, ev'.pos))) =>
          LET ms == state.modify_state
              offset == SnappedTranslateOffset(state, ev'.pos)
              corner == CornerPos(state.selection_bounds, ms.snap_corner)
          IN  /\ state'.tag = "ModifySelection"
              /\ \A k \in Keys :
                    AabbEq(store'.strokes[k].bounds,
                           IF k \in Range(state.selection)
                           THEN AabbTranslate(store.strokes[k].bounds, offset)
                           ELSE store.strokes[k].bounds)
              /\ AabbEq(state'.selection_bounds,
                        AabbTranslate(state.selection_bounds, offset))
              /\ VEq(CornerPos(state'.selection_bounds, ms.snap_corner),
                     snap_position(config.snap_positions,
                                   VAdd(corner, VSub(ev'.pos, ms.current_pos))))
              /\ state'.modify_state = [ms EXCEPT !.current_pos = VAdd(@, offset)]
              /\ cmds' = <<Cmd("translate_strokes", state.selection),
                           Cmd("translate_strokes_images", state.selection),
                           Cmd("nudge_w_pos", <<>>),
                           Cmd("expand_autoexpand", <<>>),
                           Cmd("regenerate_rendering_in_viewport_threaded", <<>>)>>]_vars

\* C28, the case: the selection was held near its lower right corner at
\* (22, 12), the pointer moved by (3, 0), and the corner went to the grid
\* point (25, 10), not by the movement of the pointer
C28_CornerOnGrid ==
    /\ ev.kind = "down" /\ InTranslate(prev) /\ InTranslate(state)
    /\ config.snap_positions
    /\ prev.modify_state.snap_corner = "BottomRight"
    /\ prev.selection_bounds = Box(0, 0, 22, 12)
    /\ VSub(ev.pos, prev.modify_state.current_pos) = Vec(3, 0)
    /\ state.selection_bounds = Box(3, -2, 25, 10)
    /\ store.strokes[1].bounds = Box(3, -2, 25, 10)

\* the corner diagonally opposite
OppositeCorner(corner) ==
    CASE corner = "TopLeft" -> "BottomRight"
      [] corner = "TopRight" -> "BottomLeft"
      [] corner = "BottomLeft" -> "TopRight"
      [] OTHER -> "TopLeft"

\* C29: in Resize the pivot is the corner of start_bounds diagonally
\* opposite from_corner, and after every Resize step that corner of
\* selection_bounds is still at the pivot.
C29_PivotStaysFixed ==
    [][(InResize(state) /\ ev'.kind = "down") =>
          LET ms == state.modify_state
              pivot == CornerPos(ms.start_bounds, OppositeCorner(ms.from_corner))
          IN  /\ state'.tag = "ModifySelection"
              /\ VEq(CornerPos(state.selection_bounds, OppositeCorner(ms.from_corner)),
                     pivot)
              /\ VEq(CornerPos(state'.selection_bounds, OppositeCorner(ms.from_corner)),
                     pivot)]_vars

\* C29, the case: the top right corner was dragged, the bounds changed on
\* both axes and the bottom left corner stayed where it was
C29_ResizedAboutBottomLeft ==
    /\ ev.kind = "down" /\ InResize(prev) /\ InResize(state)
    /\ prev.modify_state.from_corner = "TopRight"
    /\ ~REq(Extents(state.selection_bounds)[1], Extents(prev.selection_bounds)[1])
    /\ ~REq(Extents(state.selection_bounds)[2], Extents(prev.selection_bounds)[2])
    /\ VEq(CornerPos(state.selection_bounds, "BottomLeft"), Vec(0, 12))

\* the extents of selection_bounds after a Resize step in s by the event e
\* whose unlocked offset is snapped against the given corner of
\* start_bounds: start extents plus the mirrored offset, no smaller than
\* the floor of 1e-2 on either axis
ResizedExtents(s, e, anchor_corner) ==
    LET ms == s.modify_state
        start_extents == Extents(ms.start_bounds)
        raw == VSub(e.pos, ms.start_pos)
        anchor == CornerPos(ms.start_bounds, anchor_corner)
        locked == config.resize_lock_aspectratio \/ "KeyboardCtrl" \in e.modifier_keys
        offset ==
            IF locked
            THEN VScale(start_extents,
                        RDiv(VMean(MirrorOffset(ms.from_corner, raw)),
                             VMean(start_extents)))
            ELSE MirrorOffset(ms.from_corner,
                     VSub(snap_position(config.snap_positions, VAdd(anchor, raw)),
                          anchor))
    IN  VMaxs(VAdd(start_extents, offset), <<<<1, 100>>, <<1, 100>>>>)

\* C30 as stated: in Resize, unless the aspect ratio is locked, the offset
\* pointer - start_pos is snapped against the corner of start_bounds
\* opposite the dragged one, the corner that does not move; under the lock
\* it is not snapped.
C30_SnappedAgainstOppositeCorner ==
    [][(InResize(state) /\ ev'.kind = "down") =>
          /\ state'.tag = "ModifySelection"
          /\ VEq(Extents(state'.selection_bounds),
                 ResizedExtents(state, ev',
                     OppositeCorner(state.modify_state.from_corner)))]_vars

\* C30, amended: the offset is snapped against the dragged corner of
\* start_bounds, from_corner itself (dragging BottomRight snaps against
\* start_bounds.maxs); under the lock it is not snapped.
C30_SnappedAgainstDraggedCorner ==
    [][(InResize(state) /\ ev'.kind = "down") =>
          /\ state'.tag = "ModifySelection"
          /\ VEq(Extents(state'.selection_bounds),
                 ResizedExtents(state, ev', state.modify_state.from_corner))]_vars

\* C30, the case: under snapping the lower right corner (22, 12) was
\* dragged by (4, 2) and went to the grid point (25, 15); snapped against
\* the upper left corner the bounds would end at (27, 12)
C30_DraggedCornerOnGrid ==
    /\ ev.kind = "down" /\ InResize(prev) /\ InResize(state)
    /\ config.snap_positions /\ ~config.resize_lock_aspectratio
    /\ ev.modifier_keys = {}
    /\ prev.modify_state.from_corner = "BottomRight"
    /\ prev.modify_state.start_bounds = Box(0, 0, 22, 12)
    /\ ev.pos = Vec(26, 14)
    /\ AabbEq(state.selection_bounds, Box(0, 0, 25, 15))

\* the scale a Resize step applies for the event e in the state s
StepScaleResize(s, c, e) ==
    ScaleResize(s.modify_state.start_bounds,
                ResizeOffset(c, e.modifier_keys, s.modify_state, e.pos),
                s.selection_bounds)

ProperExtents(b) ==
    /\ IsFinite(Extents(b)[1]) /\ RLe(<<1, 100>>, Extents(b)[1])
    /\ IsFinite(Extents(b)[2]) /\ RLe(<<1, 100>>, Extents(b)[2])

\* C31: after every Resize step, whatever the pointer position and the
\* current selection_bounds (one without extent on an axis included), each
\* component of scale_resize is finite and strictly positive, and each
\* extent of selection_bounds is at least 1e-2.
C31_ResizeKeepsBoundsProper ==
    [][(ev'.kind = "down" /\ InResize(state) /\ ~panicked') =>
          LET scale_resize == StepScaleResize(state, config, ev')
          IN  /\ IsFinite(scale_resize[1]) /\ RLt(R(0), scale_resize[1])
              /\ IsFinite(scale_resize[2]) /\ RLt(R(0), scale_resize[2])
              /\ state'.tag = "ModifySelection"
              /\ ProperExtents(state'.selection_bounds)]_vars

\* C32: a pointer-down in Resize while store.initial_size_selection is
\* absent is skipped: the handler returns without calling
\* scale_strokes_with_pivot or scale_strokes_images_with_pivot, and
\* selection_bounds, modify_state, selection and the strokes are unchanged.
C32_AbsentSizeSkipsResize ==
    [][(ev'.kind = "down" /\ InResize(state) /\ ~IsSome(store.initial_size_selection)) =>
          /\ ~panicked'
          /\ Count(cmds', "scale_strokes_with_pivot") = 0
          /\ Count(cmds', "scale_strokes_images_with_pivot") = 0
          /\ state' = state
          /\ store'.strokes = store.strokes]_vars

\* C32, what the step leaves behind: nothing is scaled and nothing is
\* changed, the unwrap having aborted the handler before its first call
C32_AbortedBeforeScaling ==
    /\ panicked /\ ev.kind = "down" /\ InResize(prev)
    /\ ~IsSome(store.initial_size_selection)
    /\ cmds = <<>> /\ state = prev /\ store = UncachedStore

\* C33 as claimed: whenever a handler returns progress Finished, the
\* selector's state after that event is Idle.
C33_FinishedMeansIdle ==
    [][(nevents' # nevents /\ result'.progress = "Finished") => state' = Idle]_vars

\* C33, amended: a handler that returns progress Finished leaves the
\* selector in Idle, with two exceptions that leave its state as it was:
\* the pointer-up in Selecting that enters no ModifySelection (the selector
\* stays in Selecting with its path), and the key 'd' in ModifySelection.
C33_FinishedIdleOrUnchanged ==
    [][(nevents' # nevents /\ result'.progress = "Finished") =>
          IF \/ ev'.kind = "up" /\ state.tag = "Selecting"
             \/ ev'.kind = "key" /\ ev'.key = "d" /\ state.tag = "ModifySelection"
          THEN state' = state
          ELSE state' = Idle]_vars

\* C33, the case of the exceptions: Finished with the selector in Selecting
C33_FinishedInSelecting ==
    /\ ev.kind = "up" /\ prev.tag = "Selecting"
    /\ result.progress = "Finished" /\ state.tag = "Selecting"

\* the keys the event marked selected in the store
MarkedSelected(before, after) == SelectedKeys(after) \ SelectedKeys(before)

\* C34: after a pointer-up in Selecting the selector and the store agree:
\* the event marks strokes selected in the store only if the selector ends
\* in ModifySelection with selection exactly those keys, also when the store
\* returns no bounds for the new selection.
C34_SelectorAndStoreAgree ==
    [][(ev'.kind = "up" /\ state.tag = "Selecting"
            /\ MarkedSelected(store, store') # {}) =>
          /\ state'.tag = "ModifySelection"
          /\ Range(state'.selection) = MarkedSelected(store, store')]_vars

\* C34, the case: the pointer-up marked strokes selected and entered
\* ModifySelection
C34_SelectedAndEntered ==
    /\ ev.kind = "up" /\ prev.tag = "Selecting"
    /\ state.tag = "ModifySelection"
    /\ Range(state.selection) = SelectedKeys(store)

StrokesMovedBy(before, after, keys, d) ==
    \A k \in Range(keys) :
        AabbEq(after.strokes[k].bounds, AabbTranslate(before.strokes[k].bounds, d))

\* C36: throughout a Translate gesture current_pos - start_pos equals the
\* sum of the offsets passed to translate_strokes, the sum of those passed
\* to translate_strokes_images and the displacement of selection_bounds
\* since the gesture began. The gesture begins with current_pos = start_pos
\* and nothing moved; each pointer-down in it keeps start_pos and moves
\* current_pos, selection_bounds and the strokes of the selection by one and
\* the same offset, with one call of translate_strokes and one of
\* translate_strokes_images when that offset is not zero and none otherwise.
C36_TranslateSumsAgree ==
    [][(ev'.kind = "down" /\ InTranslate(state')) =>
          IF InTranslate(state)
          THEN LET d == VSub(state'.modify_state.current_pos,
                             state.modify_state.current_pos)
                   calls == IF VEq(d, Vec(0, 0)) THEN 0 ELSE 1
               IN  /\ state'.modify_state.start_pos = state.modify_state.start_pos
                   /\ state'.selection = state.selection
                   /\ AabbEq(state'.selection_bounds,
                             AabbTranslate(state.selection_bounds, d))
                   /\ StrokesMovedBy(store, store', state.selection, d)
                   /\ Count(cmds', "translate_strokes") = calls
                   /\ Count(cmds', "translate_strokes_images") = calls
          ELSE /\ state'.modify_state.current_pos = state'.modify_state.start_pos
               /\ state'.selection_bounds = state.selection_bounds
               /\ store'.strokes = store.strokes
               /\ Count(cmds', "translate_strokes") = 0
               /\ Count(cmds', "translate_strokes_images") = 0]_vars

\* C36, the case: after two moves of the wide stroke, by different offsets,
\* in its first gesture, current_pos - start_pos is the displacement of
\* selection_bounds and of the stroke in the store
C36_MovedTwice ==
    /\ ev.kind = "down" /\ InTranslate(prev) /\ InTranslate(state)
    /\ store.history = 0
    /\ ~VEq(prev.modify_state.current_pos, state.modify_state.start_pos)
    /\ ~VEq(prev.modify_state.current_pos, state.modify_state.current_pos)
    /\ ~VEq(state.modify_state.current_pos, state.modify_state.start_pos)
    /\ LET sum == VSub(state.modify_state.current_pos, state.modify_state.start_pos)
       IN  /\ AabbEq(state.selection_bounds, AabbTranslate(GestureBounds(1), sum))
           /\ AabbEq(store.strokes[1].bounds, AabbTranslate(GestureBounds(1), sum))

\* the offset of a Resize step in s by the event e after the mirroring of
\* lines 318-327, before the aspect lock
ResizeMirrored(s, c, e) ==
    LET ms == s.modify_state
        anchor == ResizeSnapCornerPos(ms.from_corner, ms.start_bounds)
        raw == VSub(e.pos, ms.start_pos)
    IN  MirrorOffset(ms.from_corner,
            IF LockAspectratio(c, e.modifier_keys) THEN raw
            ELSE VSub(snap_position(c.snap_positions, VAdd(anchor, raw)), anchor))

\* no floor and no clamp of lines 350-354 is active in the Resize step in s
\* by the event e: the new extents exceed set_positive, their quotient by
\* the current extents is finite and it is not under min_extents
NoFloorOrClamp(s, c, e) ==
    LET ms == s.modify_state
        extents == VAdd(Extents(ms.start_bounds),
                        ResizeOffset(c, e.modifier_keys, ms, e.pos))
        divided == VComponentDiv(extents, Extents(s.selection_bounds))
        floor == MinExtents(s.selection_bounds)
    IN  \A i \in 1..2 :
            /\ RLt(SetPositive, extents[i])
            /\ IsFinite(divided[i])
            /\ RLe(floor[i], divided[i])

\* a pointer-down in Resize that repeats the one before it, which was a
\* Resize step without floor or clamp
RepeatsUnclampedStep ==
    /\ ev'.kind = "down" /\ InResize(state) /\ ~panicked'
    /\ ev' = ev /\ InResize(prev) /\ NoFloorOrClamp(prev, config, ev)

\* C37 as claimed: a Resize step without floor or clamp sets the extents of
\* selection_bounds to start_bounds.extents plus the mirrored offset,
\* whatever the bounds were before; a second pointer-down at the same
\* position has scale_resize (1, 1) and leaves selection_bounds unchanged.
C37_ExtentsStartPlusMirrored ==
    /\ [][(ev'.kind = "down" /\ InResize(state) /\ ~panicked'
               /\ NoFloorOrClamp(state, config, ev')) =>
             VEq(Extents(state'.selection_bounds),
                 VAdd(Extents(state.modify_state.start_bounds),
                      ResizeMirrored(state, config, ev')))]_vars
    /\ [][RepeatsUnclampedStep =>
             /\ VEq(StepScaleResize(state, config, ev'), Vec(1, 1))
             /\ AabbEq(state'.selection_bounds, state.selection_bounds)]_vars

\* C37, amended: a Resize step without floor or clamp sets the extents of
\* selection_bounds to start_bounds.extents plus offset_to_start as it
\* enters the scale, whatever the bounds were before: the mirrored offset
\* without the aspect lock, and under the lock start_bounds.extents times
\* the mean of the mirrored offset over the mean of start_bounds.extents. A
\* second pointer-down at the same position has scale_resize (1, 1) and
\* leaves selection_bounds unchanged.
C37_ExtentsStartPlusOffset ==
    /\ [][(ev'.kind = "down" /\ InResize(state) /\ ~panicked'
               /\ NoFloorOrClamp(state, config, ev')) =>
             VEq(Extents(state'.selection_bounds),
                 VAdd(Extents(state.modify_state.start_bounds),
                      ResizeOffset(config, ev'.modifier_keys, state.modify_state,
                                   ev'.pos)))]_vars
    /\ [][RepeatsUnclampedStep =>
             /\ VEq(StepScaleResize(state, config, ev'), Vec(1, 1))
             /\ AabbEq(state'.selection_bounds, state.selection_bounds)]_vars

\* C37, the case: a pointer-down at the position of the one before it found
\* the bounds resized already, away from start_bounds, and left them as
\* they were
C37_SecondDownChangedNothing ==
    /\ ev.kind = "down" /\ InResize(prev) /\ InResize(state)
    /\ NoFloorOrClamp(prev, config, ev)
    /\ ~AabbEq(state.selection_bounds, state.modify_state.start_bounds)
    /\ state.selection_bounds = prev.selection_bounds
    /\ VEq(Extents(state.selection_bounds),
           VAdd(Extents(state.modify_state.start_bounds),
                ResizeOffset(config, ev.modifier_keys, state.modify_state, ev.pos)))

\* the anchors of a gesture: the fields of its modify_state that say where
\* it began
GestureAnchors(ms) ==
    CASE ms.tag = "Translate" -> <<ms.start_pos, ms.snap_corner>>
      [] ms.tag = "Rotate" -> <<ms.rotation_center, ms.start_rotation_angle>>
      [] ms.tag = "Resize" -> <<ms.from_corner, ms.start_bounds, ms.start_pos>>
      [] OTHER -> <<>>

\* C38: a pointer-down handled in Translate, Rotate or Resize changes none
\* of the gesture's anchors (start_pos and snap_corner; rotation_center and
\* start_rotation_angle; from_corner, start_bounds and start_pos), stays in
\* the same modify_state, and changes neither the list of selected keys nor
\* the selected flag of any stroke.
C38_GestureStepKeepsAnchors ==
    [][(ev'.kind = "down" /\ InGesture(state)) =>
          /\ state'.tag = "ModifySelection"
          /\ state'.modify_state.tag = state.modify_state.tag
          /\ GestureAnchors(state'.modify_state) = GestureAnchors(state.modify_state)
          /\ state'.selection = state.selection
          /\ \A k \in Keys : store'.strokes[k].selected = store.strokes[k].selected]_vars

\* C38, the case: a pointer-down in Rotate has turned the selection away
\* from the angle the gesture began at
C38_TurnedAwayFromStart ==
    /\ ev.kind = "down" /\ InRotate(prev) /\ InRotate(state)
    /\ state.modify_state.current_rotation_angle
           # state.modify_state.start_rotation_angle
    /\ prev.modify_state.current_rotation_angle
           = prev.modify_state.start_rotation_angle

\* C39: every event result returned by any of the six handlers, in every
\* state, has handled = true exactly when propagate = Stop.
C39_HandledIffStop ==
    [][(nevents' # nevents /\ ~panicked') =>
          /\ result' \in EventResults
          /\ result'.handled <=> result'.propagate = "Stop"]_vars

\* C39, the case: a key without a shortcut pressed in the middle of a
\* Resize is not handled and proceeds
C39_UnhandledKeyProceeds ==
    /\ ev.kind = "key" /\ InResize(prev)
    /\ ~result.handled /\ result.propagate = "Proceed"

====
